---- MODULE Spec2Model ----
(***************************************************************************)
(* A model of the adaptive extraction engine of fastread:                  *)
(*   - parsers/base_parser.py   BaseBookSourceParser: the fetch-and-       *)
(*     paginate loops (search, book info, chapter list, incremental        *)
(*     update, chapter content), continuation matching, chapter-link       *)
(*     validation;                                                         *)
(*   - parsers/parser_loader.py ParserLoader: the registry of parser       *)
(*     instances and the persisted source list.                            *)
(*                                                                         *)
(* Python strings are modelled as sequences of one-character strings, so   *)
(* that rstrip, startswith, lower, replace and the regular expression of   *)
(* parse_sec are computed character by character as the code does.         *)
(* A character outside ASCII is written as its code point ("U+7B2C" is    *)
(* the one character U+7B2C).  Python's None is the one-element sequence   *)
(* NoneVal, whose element is not a character.                              *)
(***************************************************************************)
EXTENDS Integers, Sequences, FiniteSets, TLC

(***************************************************************************)
(* Python values and string primitives                                     *)
(***************************************************************************)

\* Python's None.
NoneVal == <<"None">>

\* Python truthiness of a str-or-None value: None and "" are falsy.
Truthy(s) == s # NoneVal /\ s # <<>>

\* str.startswith(prefix)
StartsWith(s, p) ==
    /\ Len(p) <= Len(s)
    /\ SubSeq(s, 1, Len(p)) = p

\* sub in s  (substring test on str)
Contains(s, sub) ==
    \E i \in 0..(Len(s) - Len(sub)) : SubSeq(s, i + 1, i + Len(sub)) = sub

\* str.rstrip(chars): chars is a SET of characters, every trailing character
\* that belongs to it is removed (not a suffix removal).
RECURSIVE RStrip(_, _)
RStrip(s, chars) ==
    IF s # <<>> /\ s[Len(s)] \in chars
    THEN RStrip(SubSeq(s, 1, Len(s) - 1), chars)
    ELSE s

\* The set of characters of a string, as rstrip reads its argument.
CharsOf(s) == {s[i] : i \in 1..Len(s)}

Digits == <<"0", "1", "2", "3", "4", "5", "6", "7", "8", "9">>

IsDigit(c) == \E d \in 1..10 : Digits[d] = c

DigitVal(c) == (CHOOSE d \in 1..10 : Digits[d] = c) - 1

\* int(s) for a non-empty string of decimal digits.
RECURSIVE ToInt(_)
ToInt(s) ==
    IF s = <<>> THEN 0
    ELSE 10 * ToInt(SubSeq(s, 1, Len(s) - 1)) + DigitVal(s[Len(s)])

\* str(n) for n >= 0.
RECURSIVE IntToStr(_)
IntToStr(n) ==
    IF n < 10 THEN <<Digits[n + 1]>>
    ELSE IntToStr(n \div 10) \o <<Digits[(n % 10) + 1]>>

(***************************************************************************)
(* URLs                                                                    *)
(***************************************************************************)

HTTP == <<"h", "t", "t", "p", ":", "/", "/">>
DotHtml == <<".", "h", "t", "m", "l">>

\* urljoin(base, url) as build_full_url uses it: url is an absolute path
\* ("/x"), which replaces the path of base, or a relative path without dot
\* segments joined to a base that ends in "/".
SchemeAndHost(base) ==
    LET rest == SubSeq(base, Len(HTTP) + 1, Len(base))
        cut  == IF \E i \in 1..Len(rest) : rest[i] = "/"
                THEN (CHOOSE i \in 1..Len(rest) :
                        rest[i] = "/" /\ \A j \in 1..(i - 1) : rest[j] # "/") - 1
                ELSE Len(rest)
    IN  HTTP \o SubSeq(rest, 1, cut)

urljoin(base, url) ==
    IF StartsWith(url, <<"/">>) THEN SchemeAndHost(base) \o url
    ELSE base \o url

\* BaseBookSourceParser.build_full_url
build_full_url(url, base_url) ==
    IF ~Truthy(url) THEN <<>>
    ELSE IF StartsWith(url, <<"h", "t", "t", "p">>) THEN url
    ELSE IF StartsWith(url, <<"/">>) THEN urljoin(base_url, url)
    ELSE urljoin(base_url \o <<"/">>, url)

(***************************************************************************)
(* Continuation matching                                                   *)
(***************************************************************************)

\* parse_sec: re.match(r'(.*?)(?:_(\d+))?$', url).  The lazy base stops at
\* the first position from which the rest of the string is "_" followed by
\* one or more digits up to the end; without such a suffix the base is the
\* whole string and the index is 1.
HasSecSuffix(url, k) ==
    /\ k + 2 <= Len(url)
    /\ url[k + 1] = "_"
    /\ \A j \in (k + 2)..Len(url) : IsDigit(url[j])

parse_sec(url) ==
    IF \E k \in 0..Len(url) : HasSecSuffix(url, k)
    THEN LET k == CHOOSE k \in 0..Len(url) :
                     /\ HasSecSuffix(url, k)
                     /\ \A j \in 0..(k - 1) : ~HasSecSuffix(url, j)
         IN  [base |-> SubSeq(url, 1, k),
              idx  |-> ToInt(SubSeq(url, k + 2, Len(url)))]
    ELSE [base |-> url, idx |-> 1]

\* BaseBookSourceParser.next_section_match
next_section_match(next_sec0, cur_sec0) ==
    LET next_sec == RStrip(next_sec0, CharsOf(DotHtml))
        cur_sec  == RStrip(cur_sec0, CharsOf(DotHtml))
        cur      == parse_sec(cur_sec)
        nxt      == parse_sec(next_sec)
    IN  IF nxt.idx = 2 /\ StartsWith(next_sec, cur_sec) THEN TRUE
        ELSE cur.base = nxt.base /\ nxt.idx = cur.idx + 1

(***************************************************************************)
(* Chapter links                                                           *)
(***************************************************************************)

\* str.strip() for the whitespace the model's titles hold (the space).
RECURSIVE LStrip(_)
LStrip(s) == IF s # <<>> /\ s[1] = " " THEN LStrip(Tail(s)) ELSE s

Strip(s) == LStrip(RStrip(s, {" "}))

\* str.lower() on the letters the model's strings hold.
LowerChar(c) ==
    CASE c = "A" -> "a"
      [] c = "B" -> "b"
      [] c = "C" -> "c"
      [] c = "E" -> "e"
      [] c = "X" -> "x"
      [] OTHER   -> c

Lower(s) == [i \in 1..Len(s) |-> LowerChar(s[i])]

ChapterKeywords ==
    { <<"U+7B2C">>, <<"U+7AE0">>, <<"C", "h", "a", "p", "t", "e", "r">>,
      <<"c", "h", "a", "p", "t", "e", "r">>, <<"U+5377">> }

SkipKeywords ==
    { <<"U+9996", "U+9875">>, <<"U+4E66", "U+67B6">>, <<"U+6392", "U+884C">>, <<"U+5206", "U+7C7B">>,
      <<"U+641C", "U+7D22">>, <<"U+767B", "U+5F55">>, <<"U+6CE8", "U+518C">>, <<"U+5145", "U+503C">>,
      <<"U+5BA2", "U+670D">>, <<"U+5E2E", "U+52A9">>, <<"U+5173", "U+4E8E">>, <<"U+8054", "U+7CFB">>,
      <<"U+5E7F", "U+544A">>,
      <<"j", "a", "v", "a", "s", "c", "r", "i", "p", "t", ":">>,
      <<"m", "a", "i", "l", "t", "o", ":">>, <<"#">>,
      <<"U+6700", "U+65B0", "U+7AE0", "U+8282">>, <<"U+7AE0", "U+8282", "U+76EE", "U+5F55">>,
      <<"U+52A0", "U+5165", "U+4E66", "U+7B7E">>, <<"U+63A8", "U+8350", "U+672C", "U+4E66">>,
      <<"U+4E0A", "U+4E00", "U+9875">>, <<"U+4E0B", "U+4E00", "U+9875">>, <<"U+8FD4", "U+56DE">> }

MinTitleLen == 2
MaxTitleLen == 200

\* (a validity test whose upper length bound is exclusive)
is_valid_chapter_link_below_max(title, href) ==
    IF ~Truthy(title) \/ ~Truthy(href) THEN FALSE
    ELSE IF Len(title) >= MaxTitleLen \/ Len(title) < MinTitleLen THEN FALSE
    ELSE IF \E k \in ChapterKeywords : Contains(title, k) THEN TRUE
    ELSE \E i \in 1..Len(title) : IsDigit(title[i])

\* BaseBookSourceParser.is_valid_chapter_link
is_valid_chapter_link(title, href) ==
    IF ~Truthy(title) \/ ~Truthy(href) THEN FALSE
    ELSE IF Len(title) > MaxTitleLen \/ Len(title) < MinTitleLen THEN FALSE
    ELSE IF \E k \in ChapterKeywords : Contains(title, k) THEN TRUE
    ELSE IF \E i \in 1..Len(title) : IsDigit(title[i]) THEN TRUE
    ELSE IF \E k \in SkipKeywords :
               Contains(Lower(title), k) \/ Contains(Lower(href), k) THEN FALSE
    ELSE FALSE

\* (a numbering by position among all links, rejected ones included)
RECURSIVE convert_chapter_links_by_position(_, _, _)
convert_chapter_links_by_position(links, start_no, base_url) ==
    IF links = <<>> THEN <<>>
    ELSE LET link  == Head(links)
             title == Strip(link.text)
         IN  (IF is_valid_chapter_link(title, link.href)
              THEN <<[title          |-> title,
                      url            |-> build_full_url(link.href, base_url),
                      chapter_number |-> start_no]>>
              ELSE <<>>)
             \o convert_chapter_links_by_position(Tail(links), start_no + 1, base_url)

\* BaseBookSourceParser.convert_chapter_links: a link is [text, href]; an
\* accepted link takes the next chapter_number, a rejected one takes none.
RECURSIVE convert_chapter_links(_, _, _)
convert_chapter_links(links, start_no, base_url) ==
    IF links = <<>> THEN <<>>
    ELSE LET link  == Head(links)
             title == Strip(link.text)
         IN  IF is_valid_chapter_link(title, link.href)
             THEN <<[title          |-> title,
                     url            |-> build_full_url(link.href, base_url),
                     chapter_number |-> start_no]>>
                  \o convert_chapter_links(Tail(links), start_no + 1, base_url)
             ELSE convert_chapter_links(Tail(links), start_no, base_url)

(***************************************************************************)
(* The parser instance, its configuration and the site it reads            *)
(***************************************************************************)

VARIABLES
    cfg,           \* the parser instance's derived fields (__init__)
    site,          \* the pages the site has served, by URL
    op,            \* the operation called on the parser
    args,          \* its arguments
    pc,            \* "idle", "loop" (between two fetches) or "done"
    next_page,     \* the loop variable: the URL to fetch next, or None
    acc,           \* the loop's accumulator (books, chapters, content)
    fetched,       \* the URLs fetched by the call, in order
    failed_at,     \* which fetch of the call failed (timeout or non-2xx), 0: none
    result,        \* the value returned to the caller
    raised         \* an exception reached the caller

pvars == <<cfg, site, op, args, pc, next_page, acc, fetched, failed_at,
           result, raised>>

\* Calls on one instance that overlap: coroutines interleave at each await.
VARIABLES
    parked         \* the frame of the coroutine that is suspended at an await

tvars == <<parked>>

\* The registry of parser instances (parser_loader.py) and the disk.
VARIABLES
    parsers,       \* ParserLoader._parsers: the registered instances, in order
    loaded,        \* ParserLoader._loaded
    sources_dir,   \* the sources directory exists
    sources_json,  \* sources/sources.json: whether it exists, and its list
    ext_classes,   \* the parser classes the modules of sources/ define
    class_config,  \* per class: template copies appended to its class-level
                   \* content.remove_tags / content.remove_patterns so far
    next_id,       \* the identity of the next instance constructed
    ncalls,        \* the registry calls made so far
    ret,           \* the last call: its name, arguments and outcome
    thr            \* per thread: the registry call it is in and its position

rvars == <<parsers, loaded, sources_dir, sources_json, ext_classes,
           class_config, next_id, ncalls, ret, thr, tvars>>

\* The most fetches the calls in progress make, and the most pages the site
\* serves, in the model.
MaxFetch == 4
\* The largest existing_chapter_count passed to update_chapter_list.
MaxExisting == 4

\* A configured CSS selector (which elements it finds is part of the page).
Sel == <<"selector">>
\* soup.select_one(...) found no element.
NoElem == <<"NoElem">>

\* A format string is a sequence of characters and replacement fields.
FieldBookUrl == "{book_url}"
FieldPage == "{page}"
FieldKeyword == "{keyword}"

\* str.format(book_url=..., page=..., keyword=...)
RECURSIVE Format(_, _, _, _)
Format(fmt, book_url, page, keyword) ==
    IF fmt = <<>> THEN <<>>
    ELSE (CASE Head(fmt) = FieldBookUrl -> book_url
            [] Head(fmt) = FieldPage    -> IntToStr(page)
            [] Head(fmt) = FieldKeyword -> keyword
            [] OTHER                    -> <<Head(fmt)>>)
         \o Format(Tail(fmt), book_url, page, keyword)

SiteUrl == HTTP \o <<"s">>
Chap(x) == SiteUrl \o <<"/">> \o x \o DotHtml
S1 == Chap(<<"1">>)
S1_2 == Chap(<<"1", "_", "2">>)
S1_3 == Chap(<<"1", "_", "3">>)
S2 == Chap(<<"2">>)
ChapterUrls == {S1, S1_2, S1_3, S2}

BookUrl == Chap(<<"b">>)
PageUrlFmt == <<FieldBookUrl, "_", FieldPage>> \o DotHtml
ListPage(k) == Format(PageUrlFmt, RStrip(BookUrl, CharsOf(DotHtml)), k, <<>>)
ListUrls == {BookUrl, ListPage(1), ListPage(2), ListPage(3)}

Keyword == <<"k">>
SearchUrlFmt == SiteUrl \o <<"/", "q", "=", FieldKeyword>>
SearchUrlPrefix == SiteUrl \o <<"/", "q", "=">>
SearchUrls == {SiteUrl \o <<"/", "q", "=", "k">>,
               SiteUrl \o <<"/", "q", "=", "k", "&", "p", "=", "2">>}

\* cfg_template and the glom defaults of __init__: the derived fields of a
\* parser built from a config that sets name and url only.
Template ==
    [ base_url                           |-> SiteUrl,
      search_url                         |-> <<>>,
      next_search_page_selector          |-> NoneVal,
      chapter_count_per_page             |-> 0,
      next_chapter_list_selector         |-> NoneVal,
      chapter_list_pagers_selector       |-> Sel,
      chapter_list_pagers_current        |-> Sel,
      chapter_links_items_selector       |-> <<>>,
      chapter_list_page_url_skip_endding |-> <<>>,
      chapter_list_page_url_fmt          |-> NoneVal,
      next_section_selector              |-> NoneVal ]

Cfg(search_url, search_next, list_next, pagers, items, count, skip, fmt, sec_next) ==
    [Template EXCEPT
        !.search_url                         = search_url,
        !.next_search_page_selector          = search_next,
        !.next_chapter_list_selector         = list_next,
        !.chapter_list_pagers_selector       = pagers,
        !.chapter_list_pagers_current        = pagers,
        !.chapter_links_items_selector       = items,
        !.chapter_count_per_page             = count,
        !.chapter_list_page_url_skip_endding = skip,
        !.chapter_list_page_url_fmt          = fmt,
        !.next_section_selector              = sec_next]

\* The configurations of the parser under study: every setting of the
\* fields one operation reads occurs in one of them.
SourceConfigs ==
    { Template,
      Cfg(SearchUrlFmt,    NoneVal, Sel,     Sel,     <<>>,    0, <<>>,    NoneVal,    Sel),
      Cfg(SearchUrlPrefix, Sel,     Sel,     NoneVal, <<>>,    0, <<>>,    NoneVal,    NoneVal),
      Cfg(SearchUrlFmt,    Sel,     NoneVal, NoneVal, <<>>,    0, <<>>,    NoneVal,    Sel),
      Cfg(SearchUrlPrefix, NoneVal, NoneVal, Sel,     <<Sel>>, 0, <<>>,    NoneVal,    NoneVal),
      Cfg(<<>>,            NoneVal, Sel,     Sel,     <<>>,    2, DotHtml, PageUrlFmt, Sel),
      Cfg(<<>>,            NoneVal, Sel,     Sel,     <<>>,    2, <<>>,    NoneVal,    NoneVal),
      Cfg(<<>>,            NoneVal, Sel,     Sel,     <<>>,    2, <<>>,    PageUrlFmt, NoneVal) }

\* Anchors of a chapter list: [text, href].
LinkA == [text |-> <<"U+7B2C", "1", "U+7AE0">>, href |-> <<"/", "c", "/", "1">>]
LinkB == [text |-> <<" ", "1", "2">>, href |-> <<"/", "c", "/", "2">>]
LinkNav == [text |-> <<"U+9996", "U+9875">>, href |-> <<"/">>]
LinkShort == [text |-> <<" ", "2", " ">>, href |-> <<"/", "c", "/", "3">>]
FullList == <<LinkA, LinkNav, LinkShort, LinkB>>
ShortList == <<LinkA>>

\* What the selectors of the parser find on a page, and what the parse
\* steps that the model does not open (parse_search_results,
\* parse_book_info, clean_content_soup) return for it.
DefaultPage ==
    [ has_list    |-> FALSE,    \* a chapter_list.list container was found
      container   |-> <<>>,     \* the anchors (with href) inside it
      items       |-> <<>>,     \* anchors found by chapter_list.items
      next_list   |-> NoElem,   \* href of the chapter_list.next element
      pagers      |-> <<>>,     \* hrefs of the pager entries
      pager_cur   |-> NoElem,   \* href of the current pager entry
      next_sec    |-> NoElem,   \* href of the content.next element
      content     |-> NoneVal,  \* the cleaned text, None without content element
      results     |-> <<>>,     \* the SearchResults of the page
      next_search |-> NoElem,   \* href of the '.pager a.pager-next' element
      info        |-> NoneVal ] \* the BookInfo of the page

\* The cleaned text of the content element of page u.
Text(u) == <<"[">> \o u \o <<"]">>

ContentPages(u) ==
    { [DefaultPage EXCEPT !.next_sec = h, !.content = c]
        : h \in (IF Truthy(cfg.next_section_selector)
                 THEN {NoElem, NoneVal} \cup ChapterUrls ELSE {NoElem}),
          c \in {NoneVal, <<>>, Text(u)} }

\* Pager entries and the current entry, as hrefs.
PagerPool ==
    { <<<<>>, NoElem>>,
      <<<<ListPage(1), ListPage(2), ListPage(3)>>, ListPage(1)>>,
      <<<<ListPage(1), ListPage(2), ListPage(3)>>, ListPage(2)>>,
      <<<<ListPage(1), ListPage(2), ListPage(3)>>, ListPage(3)>>,
      <<<<ListPage(2), ListPage(1)>>, ListPage(2)>>,
      <<<<ListPage(1), ListPage(1), ListPage(2)>>, ListPage(1)>> }

\* The list page after u in a well-formed listing.
Following(u) ==
    CASE u = BookUrl     -> ListPage(2)
      [] u = ListPage(1) -> ListPage(2)
      [] u = ListPage(2) -> ListPage(3)
      [] OTHER           -> NoElem

ListPage_(has_list, container, items, next_list, pagers, pager_cur) ==
    [DefaultPage EXCEPT !.has_list = has_list, !.container = container,
                        !.items = items, !.next_list = next_list,
                        !.pagers = pagers, !.pager_cur = pager_cur]

\* The pages a list URL may serve: any of the link lists on a page that
\* links to the following page, and any next link or pager on a page with
\* the full list.  A selector that is not configured finds nothing, and the
\* pager is read only on a page without a chapter_list.next href.
ListPages(u) ==
    LET well_next  == IF Truthy(cfg.next_chapter_list_selector)
                      THEN Following(u) ELSE NoElem
        well_pager == IF well_next = NoElem /\ Truthy(cfg.chapter_list_pagers_selector)
                      THEN <<<<u, Following(u)>>, u>> ELSE <<<<>>, NoElem>>
        items      == IF Truthy(cfg.chapter_links_items_selector)
                      THEN <<LinkB>> ELSE <<>>
    IN  { ListPage_(c[1], c[2], items, well_next, well_pager[1], well_pager[2])
            : c \in {<<FALSE, <<>>>>, <<TRUE, FullList>>, <<TRUE, ShortList>>} }
        \cup
        { ListPage_(TRUE, FullList, items, n, <<>>, NoElem)
            : n \in IF Truthy(cfg.next_chapter_list_selector) THEN ListUrls ELSE {} }
        \cup
        { ListPage_(TRUE, FullList, items, NoElem, pg[1], pg[2])
            : pg \in IF Truthy(cfg.chapter_list_pagers_selector)
                     THEN PagerPool ELSE {<<<<>>, NoElem>>} }

SearchResult(u, i) == [title |-> <<"t">>, source_url |-> u, no |-> i]

SearchPages(u) ==
    { [DefaultPage EXCEPT !.results = r, !.next_search = n]
        : r \in {<<>>, <<SearchResult(u, 1)>>,
                 <<SearchResult(u, 1), SearchResult(u, 2)>>},
          n \in (IF Truthy(cfg.next_search_page_selector)
                 THEN {NoElem} \cup SearchUrls ELSE {NoElem}) }

BookInfo == <<"B", "o", "o", "k", "I", "n", "f", "o">>

BookPages == { [DefaultPage EXCEPT !.info = i] : i \in {NoneVal, BookInfo} }

\* The page the site serves at u: the one it served before, or any page.
Serve(u, pool) == IF u \in DOMAIN site THEN {site[u]} ELSE pool

Served(u, page) ==
    [x \in (DOMAIN site) \cup {u} |-> IF x = u THEN page ELSE site[x]]

(***************************************************************************)
(* The hooks and parse steps of BaseBookSourceParser                       *)
(***************************************************************************)

\* get_search_url
get_search_url(keyword) ==
    IF ~Truthy(cfg.search_url) THEN <<>>
    ELSE IF Contains(cfg.search_url, <<FieldKeyword>>)
         THEN Format(cfg.search_url, <<>>, 0, keyword)
    ELSE cfg.search_url \o keyword

\* get_next_search_page
get_next_search_page(page, search_url) ==
    IF ~Truthy(cfg.next_search_page_selector) THEN NoneVal
    ELSE IF page.next_search # NoElem /\ Truthy(page.next_search)
         THEN build_full_url(page.next_search, search_url)
    ELSE NoneVal

\* The pager branch of get_next_chapter_list_page: the entry after the first
\* entry whose href equals the current entry's, unless it is the last entry
\* or the entry after it has the same href.
PagerNext(page, book_url) ==
    LET hit(i) == page.pagers[i] = page.pager_cur /\ i + 1 <= Len(page.pagers)
    IN  IF page.pager_cur # NoElem /\ page.pagers # <<>>
           /\ \E i \in 1..Len(page.pagers) : hit(i)
        THEN LET i == CHOOSE i \in 1..Len(page.pagers) :
                          hit(i) /\ \A j \in 1..(i - 1) : ~hit(j)
             IN  IF page.pagers[i + 1] = page.pager_cur THEN NoneVal
                 ELSE build_full_url(page.pagers[i + 1], book_url)
        ELSE NoneVal

\* get_next_chapter_list_page
get_next_chapter_list_page(page, book_url) ==
    IF /\ Truthy(cfg.next_chapter_list_selector)
       /\ page.next_list # NoElem
       /\ Truthy(page.next_list)
    THEN build_full_url(page.next_list, book_url)
    ELSE IF /\ Truthy(cfg.chapter_list_pagers_selector)
            /\ Truthy(cfg.chapter_list_pagers_current)
         THEN PagerNext(page, book_url)
    ELSE NoneVal

\* chapter_list_page_url
chapter_list_page_url(page, book_url) ==
    IF Truthy(cfg.chapter_list_page_url_fmt)
    THEN Format(cfg.chapter_list_page_url_fmt,
                RStrip(book_url, CharsOf(cfg.chapter_list_page_url_skip_endding)),
                page, <<>>)
    ELSE book_url

\* (a hook that follows every next-section link it finds)
get_chapter_next_section_any(page, chapter_url, chapter_sec) ==
    IF ~Truthy(cfg.next_section_selector) THEN NoneVal
    ELSE IF page.next_sec # NoElem
         THEN build_full_url(page.next_sec, chapter_url)
    ELSE NoneVal

\* get_chapter_next_section
get_chapter_next_section(page, chapter_url, chapter_sec) ==
    IF ~Truthy(cfg.next_section_selector) THEN NoneVal
    ELSE IF page.next_sec # NoElem
         THEN LET next_sec == build_full_url(page.next_sec, chapter_url)
              IN  IF next_section_match(next_sec, chapter_sec)
                  THEN next_sec ELSE NoneVal
    ELSE NoneVal

\* parse_chapter_list
parse_chapter_list(page, book_url, chno) ==
    LET found == IF page.has_list THEN page.container ELSE <<>>
        links == IF found = <<>> /\ Truthy(cfg.chapter_links_items_selector)
                 THEN page.items ELSE found
    IN  convert_chapter_links(links, chno + 1, cfg.base_url)

(***************************************************************************)
(* The five operations of a parser instance                                *)
(***************************************************************************)

Pending == [kind |-> "pending", value |-> <<>>]
RetNone == [kind |-> "None", value |-> <<>>]
RetList(l) == [kind |-> "list", value |-> l]
RetStr(t) == [kind |-> "str", value |-> t]
RetInfo(i) == [kind |-> "BookInfo", value |-> i]

\* (an except clause that returns what the loop had gathered)
OnException_partial(o) ==
    CASE o = "search_books"        -> RetList(acc)
      [] o = "get_book_info"       -> RetNone
      [] o = "get_chapter_list"    -> RetList(acc)
      [] o = "update_chapter_list" -> RetList(acc)
      [] o = "get_chapter_content" -> RetStr(acc)

\* The except clause around the fetches of each operation: what the call
\* returns when a fetch (or a parse step) raises.  update_chapter_list
\* without count_per_page has none of its own: the fetches are those of
\* get_chapter_list, whose [] it slices.
OnException(o) ==
    CASE o = "search_books"        -> RetList(<<>>)
      [] o = "get_book_info"       -> RetNone
      [] o = "get_chapter_list"    -> RetList(<<>>)
      [] o = "update_chapter_list" -> RetList(<<>>)
      [] o = "get_chapter_content" -> RetNone

\* chapters[n:]
Drop(l, n) == SubSeq(l, n + 1, Len(l))

\* [c for c in chapters if c.chapter_number > n]
RECURSIVE NewerThan(_, _)
NewerThan(chapters, n) ==
    IF chapters = <<>> THEN <<>>
    ELSE (IF Head(chapters).chapter_number > n THEN <<Head(chapters)>> ELSE <<>>)
         \o NewerThan(Tail(chapters), n)

Limits == {-1, 0, 1, 2, 3}

Begin(o, a, url, r) ==
    /\ op' = o
    /\ args' = a
    /\ acc' = <<>>
    /\ next_page' = url
    /\ pc' = IF Truthy(url) THEN "loop" ELSE "done"
    /\ result' = IF Truthy(url) THEN Pending ELSE r
    /\ UNCHANGED <<cfg, site, fetched, failed_at, raised, rvars>>

\* A fetch raised (timeout, or raise_for_status on a non-2xx answer).
FetchFails ==
    /\ fetched' = Append(fetched, next_page)
    /\ failed_at' = Len(fetched) + 1
    /\ pc' = "done"
    /\ result' = OnException(op)
    /\ UNCHANGED <<cfg, site, op, args, next_page, acc, raised, rvars>>

\* A fetch answered with page; the loop goes on at nxt or returns r.
FetchGives(page, a, nxt, r) ==
    /\ fetched' = Append(fetched, next_page)
    /\ site' = Served(next_page, page)
    /\ acc' = a
    /\ next_page' = nxt
    /\ pc' = IF Truthy(nxt) THEN "loop" ELSE "done"
    /\ result' = IF Truthy(nxt) THEN Pending ELSE r
    /\ UNCHANGED <<cfg, op, args, failed_at, raised, rvars>>

\* A parse step raised inside the try block.
ParseRaises(page) ==
    /\ fetched' = Append(fetched, next_page)
    /\ site' = Served(next_page, page)
    /\ pc' = "done"
    /\ result' = OnException(op)
    /\ UNCHANGED <<cfg, op, args, next_page, acc, failed_at, raised, rvars>>

InLoop(o) ==
    /\ pc = "loop"
    /\ op = o
    /\ Len(fetched) + Len(parked.fetched) < MaxFetch
    /\ next_page \in DOMAIN site \/ Cardinality(DOMAIN site) < MaxFetch

Begin_search_books(limit) ==
    Begin("search_books", [keyword |-> Keyword, limit |-> limit],
          get_search_url(Keyword), RetList(<<>>))

Call_search_books ==
    /\ pc = "idle"
    /\ \E limit \in Limits : Begin_search_books(limit)

\* (a search that follows the next-page hook whatever the limit)
Step_search_books_unlimited ==
    /\ InLoop("search_books")
    /\ \/ FetchFails
       \/ \E page \in Serve(next_page, SearchPages(next_page)) :
            LET books == acc \o page.results
            IN  FetchGives(page, books,
                           get_next_search_page(page, get_search_url(args.keyword)),
                           RetList(books))

Step_search_books ==
    /\ InLoop("search_books")
    /\ \/ FetchFails
       \/ \E page \in Serve(next_page, SearchPages(next_page)) :
            LET books == acc \o page.results
                nxt   == IF args.limit > 0 /\ Len(books) >= args.limit
                         THEN NoneVal
                         ELSE get_next_search_page(page, get_search_url(args.keyword))
            IN  FetchGives(page, books, nxt, RetList(books))

Call_get_book_info ==
    /\ pc = "idle"
    /\ op' = "get_book_info"
    /\ args' = [book_url |-> BookUrl]
    /\ next_page' = BookUrl
    /\ pc' = "loop"
    /\ UNCHANGED <<cfg, site, acc, fetched, failed_at, result, raised, rvars>>

Step_get_book_info ==
    /\ InLoop("get_book_info")
    /\ \/ FetchFails
       \/ \E page \in Serve(next_page, BookPages) :
            FetchGives(page, acc, NoneVal,
                       IF page.info = NoneVal THEN RetNone ELSE RetInfo(page.info))

Call_get_chapter_list ==
    /\ pc = "idle"
    /\ Begin("get_chapter_list", [book_url |-> BookUrl], BookUrl, RetList(<<>>))

Step_get_chapter_list ==
    /\ InLoop("get_chapter_list")
    /\ \/ FetchFails
       \/ \E page \in Serve(next_page, ListPages(next_page)) :
            LET chapters == acc \o parse_chapter_list(page, args.book_url, Len(acc))
            IN  FetchGives(page, chapters,
                           get_next_chapter_list_page(page, args.book_url),
                           RetList(chapters))

\* page_count = existing_chapter_count // self.chapter_count_per_page
update_page_count(n) == n \div cfg.chapter_count_per_page

\* update_chapter_list: without count_per_page the loop is get_chapter_list's
\* and its result is sliced; with it the loop starts at the page of the
\* first missing chapter.
Begin_update_chapter_list(n) ==
    LET c == cfg.chapter_count_per_page
        page_count == update_page_count(n)
    IN  Begin("update_chapter_list",
              [book_url |-> BookUrl, existing_chapter_count |-> n],
              IF c <= 0 THEN BookUrl
              ELSE chapter_list_page_url(page_count + 1, BookUrl),
              RetList(<<>>))

Call_update_chapter_list ==
    /\ pc = "idle"
    /\ \E n \in 0..MaxExisting : Begin_update_chapter_list(n)

Step_update_chapter_list ==
    /\ InLoop("update_chapter_list")
    /\ \/ FetchFails
       \/ \E page \in Serve(next_page, ListPages(next_page)) :
            LET c == cfg.chapter_count_per_page
                n == args.existing_chapter_count
                page_count == update_page_count(n)
                chno == IF c <= 0 THEN Len(acc) ELSE page_count * c + Len(acc)
                chapters == acc \o parse_chapter_list(page, args.book_url, chno)
            IN  FetchGives(page, chapters,
                           get_next_chapter_list_page(page, args.book_url),
                           RetList(IF c <= 0 THEN Drop(chapters, n)
                                   ELSE NewerThan(chapters, n)))

Begin_get_chapter_content(u) ==
    Begin("get_chapter_content", [chapter_url |-> u], u, RetStr(<<>>))

Call_get_chapter_content ==
    /\ pc = "idle"
    /\ \E u \in ChapterUrls : Begin_get_chapter_content(u)

\* (a loop that takes a page without content element for an empty fragment)
Step_get_chapter_content_skipping ==
    /\ InLoop("get_chapter_content")
    /\ \/ FetchFails
       \/ \E page \in Serve(next_page, ContentPages(next_page)) :
            LET content == acc \o (IF page.content = NoneVal THEN <<>>
                                   ELSE page.content)
            IN  FetchGives(page, content,
                           get_chapter_next_section(page, args.chapter_url, next_page),
                           RetStr(content))

\* content += None raises TypeError, inside the try block.
Step_get_chapter_content ==
    /\ InLoop("get_chapter_content")
    /\ \/ FetchFails
       \/ \E page \in Serve(next_page, ContentPages(next_page)) :
            IF page.content = NoneVal THEN ParseRaises(page)
            ELSE LET content == acc \o page.content
                 IN  FetchGives(page, content,
                                get_chapter_next_section(page, args.chapter_url, next_page),
                                RetStr(content))

(***************************************************************************)
(* The parser registry (parsers/parser_loader.py)                          *)
(***************************************************************************)

\* The most registry calls in one behaviour of the model.
MaxCalls == 3

\* str.replace(c, '') for each character c of chars.
Remove(s, chars) == SelectSeq(s, LAMBDA c : c \notin chars)

\* parser_key = source_name.lower().replace(' ', '').replace('-', '').replace('_', '')
parser_key(source_name) == Remove(Lower(source_name), {" ", "-", "_"})

\* The characters of s before the first one of stops.
RECURSIVE TakeUntil(_, _)
TakeUntil(s, stops) ==
    IF s = <<>> \/ Head(s) \in stops THEN <<>>
    ELSE <<Head(s)>> \o TakeUntil(Tail(s), stops)

\* urlparse(url).netloc: what follows "scheme://" up to the next "/", "?"
\* or "#"; it keeps a port and user information.
Netloc(url) ==
    LET scheme == TakeUntil(url, {":"})
        rest   == IF Len(scheme) < Len(url)
                  THEN SubSeq(url, Len(scheme) + 2, Len(url)) ELSE url
    IN  IF StartsWith(rest, <<"/", "/">>)
        THEN TakeUntil(SubSeq(rest, 3, Len(rest)), {"/", "?", "#"})
        ELSE <<>>

\* Source names, hosts and URLs of the model.
Name_ab   == <<"a", "b">>
Name_A_b  == <<"A", "-", "b">>
Name_base == <<"b", "a", "s", "e">>
Name_e    == <<"e">>
Show_E_x  == <<"E", " ", "x">>
Host_ac   == <<"a", ".", "c">>
Host_Ac   == <<"A", ".", "c">>
Host_ec   == <<"e", ".", "c">>
UrlOf(netloc) == HTTP \o netloc \o <<"/", "b">>

NamePool == {Name_ab, Name_A_b, Show_E_x}
UrlPool  == { UrlOf(Host_ac), UrlOf(Host_Ac),
              UrlOf(<<"x", ".">> \o Host_ac),
              UrlOf(Host_ac \o <<":", "8">>) }

\* A source config dict: which of the keys the constructor requires are
\* present, and the values the registry reads.
SourceConfig(name, show_name, domains) ==
    [has_name |-> TRUE, name |-> name, show_name |-> show_name,
     has_url |-> TRUE, url |-> HTTP \o name, domains |-> domains]

\* source_config = {} (the default of the module-level functions).
EmptyConfig ==
    [has_name |-> FALSE, name |-> <<>>, show_name |-> <<>>,
     has_url |-> FALSE, url |-> <<>>, domains |-> <<>>]

CfgAb   == SourceConfig(Name_ab, <<>>, <<Host_ac>>)
CfgA_b  == SourceConfig(Name_A_b, <<>>, <<Host_Ac>>)
CfgBase == SourceConfig(Name_base, <<>>, <<>>)
\* A config whose name is the empty string.
CfgBlank == SourceConfig(<<>>, <<>>, <<>>)

ConfigPool == {CfgAb, CfgA_b, CfgBase, CfgBlank, EmptyConfig}

\* The classes of the extension modules: a class with a class-level
\* source_config, and one whose class-level config has no 'content' key
\* (its constructor raises KeyError and its module is skipped).
ExtE ==
    [cls |-> "EParser", config |-> SourceConfig(Name_e, Show_E_x, <<Host_ec>>),
     has_content |-> TRUE, has_remove_tags |-> TRUE]
ExtBad ==
    [cls |-> "BadParser", config |-> SourceConfig(<<"x">>, <<>>, <<>>),
     has_content |-> FALSE, has_remove_tags |-> FALSE]
ClassNames == {"EParser", "BadParser"}

NoFile == [exists |-> FALSE, list |-> <<>>]
File(l) == [exists |-> TRUE, list |-> l]

\* What the process may find on disk when it starts.
Disks ==
    { [dir |-> FALSE, ext |-> <<>>,             json |-> NoFile],
      [dir |-> TRUE,  ext |-> <<ExtBad, ExtE>>, json |-> NoFile],
      [dir |-> TRUE,  ext |-> <<ExtBad, ExtE>>, json |-> File(<<CfgAb>>)],
      [dir |-> TRUE,  ext |-> <<>>,             json |-> File(<<CfgBase, CfgAb>>)] }

\* A parser instance as the registry sees it.  template_copies counts how
\* often the template's remove_tags / remove_patterns entries occur in the
\* instance's resolved source_config.
NewParser(id, cls, config, copies) ==
    [id |-> id, cls |-> cls, name |-> config.name,
     show_name |-> config.show_name, domains |-> config.domains,
     template_copies |-> copies]

\* BaseBookSourceParser.get_parser_name: the names that are set; with none
\* set it reads self.__name__, which an instance does not have.
get_parser_name(p) ==
    (IF Truthy(p.name) THEN <<p.name>> ELSE <<>>)
        \o (IF Truthy(p.show_name) THEN <<p.show_name>> ELSE <<>>)

\* BaseBookSourceParser.can_handle_url
can_handle_url(p, url) ==
    IF p.name = Name_base THEN TRUE
    ELSE LET udomain == Lower(Netloc(url))
         IN  \E i \in 1..Len(p.domains) : p.domains[i] = udomain

\* The loader, the disk and the outcome of the call in progress.
Cur ==
    [parsers |-> parsers, loaded |-> loaded, sources_dir |-> sources_dir,
     sources_json |-> sources_json, class_config |-> class_config,
     next_id |-> next_id, raised |-> FALSE, value |-> 0]

\* ParserLoader.create_base_parser: the constructor raises on a config
\* without 'name' or 'url' before anything is written.
create_base_parser(W, source_config, save) ==
    IF ~(source_config.has_name /\ source_config.has_url)
    THEN [W EXCEPT !.raised = TRUE]
    ELSE LET parser == NewParser(W.next_id, "BaseBookSourceParser",
                                 source_config, 1)
             existing_sources == IF W.sources_json.exists
                                 THEN W.sources_json.list ELSE <<>>
             W1 == IF save
                   THEN [W EXCEPT !.sources_dir = TRUE,
                                  !.sources_json =
                                      File(Append(existing_sources, source_config))]
                   ELSE W
             W2 == [W1 EXCEPT !.parsers = Append(@, parser),
                              !.next_id = @ + 1]
         IN  IF get_parser_name(parser) = <<>>
             THEN [W2 EXCEPT !.raised = TRUE]
             ELSE [W2 EXCEPT !.value = parser.id]

\* load_parsers, the scan of sources/: each class is constructed with no
\* argument.  The constructor first extends the class-level remove_tags /
\* remove_patterns lists with the template's, then resolves the config; an
\* exception skips the module.
RECURSIVE LoadExtensions(_, _)
LoadExtensions(W, classes) ==
    IF classes = <<>> THEN W
    ELSE LET obj == Head(classes)
             copies == W.class_config[obj.cls]
                         + (IF obj.has_remove_tags THEN 1 ELSE 0)
             p  == NewParser(W.next_id, obj.cls, obj.config, copies)
             W1 == IF obj.has_content
                   THEN [W EXCEPT !.class_config[obj.cls] = copies]
                   ELSE W
             W2 == IF obj.has_content /\ obj.config.has_name /\ obj.config.has_url
                   THEN [W1 EXCEPT !.parsers = Append(@, p), !.next_id = @ + 1]
                   ELSE W1
         IN  LoadExtensions(W2, Tail(classes))

\* A loader that would write each config it reads back to sources.json.
LoadSource_saving(W, source_config) ==
    create_base_parser(W, source_config, TRUE)

\* self.create_base_parser(source_config, save=False)
LoadSource(W, source_config) ==
    create_base_parser(W, source_config, FALSE)

\* load_parsers, the loop over sources.json: an exception leaves the loop
\* and the call.
RECURSIVE LoadSources(_, _)
LoadSources(W, sources) ==
    IF sources = <<>> THEN W
    ELSE LET W1 == LoadSource(W, Head(sources))
         IN  IF W1.raised THEN W1
             ELSE LoadSources([W1 EXCEPT !.value = 0], Tail(sources))

\* ParserLoader.load_parsers
load_parsers(W) ==
    IF W.loaded THEN W
    ELSE IF ~W.sources_dir THEN [W EXCEPT !.loaded = TRUE]
    ELSE LET W1 == LoadExtensions(W, ext_classes)
             W2 == IF W1.sources_json.exists
                   THEN LoadSources(W1, W1.sources_json.list)
                   ELSE W1
         IN  IF W2.raised THEN W2 ELSE [W2 EXCEPT !.loaded = TRUE]

\* The loop of get_parser: the first parser whose name list holds the key.
RECURSIVE FindByName(_, _, _)
FindByName(W, ps, key) ==
    IF ps = <<>> THEN W
    ELSE LET names == get_parser_name(Head(ps))
         IN  IF names = <<>> THEN [W EXCEPT !.raised = TRUE]
             ELSE IF \E i \in 1..Len(names) : names[i] = key
                  THEN [W EXCEPT !.value = Head(ps).id]
                  ELSE FindByName(W, Tail(ps), key)

\* ParserLoader.get_parser
get_parser(W, source_name) ==
    LET W1 == load_parsers(W)
    IN  IF W1.raised THEN W1
        ELSE FindByName(W1, W1.parsers, parser_key(source_name))

\* The loop of ParserLoader.get_parser_for_url.
RECURSIVE FindByUrl(_, _, _)
FindByUrl(W, ps, url) ==
    IF ps = <<>> THEN W
    ELSE IF can_handle_url(Head(ps), url)
         THEN [W EXCEPT !.value = Head(ps).id]
         ELSE FindByUrl(W, Tail(ps), url)

\* ParserLoader.get_parser_for_url
ParserLoader_get_parser_for_url(W, url) ==
    LET W1 == load_parsers(W)
    IN  IF W1.raised THEN W1 ELSE FindByUrl(W1, W1.parsers, url)

\* ParserLoader.reload_parsers
reload_parsers(W) ==
    load_parsers([W EXCEPT !.parsers = <<>>, !.loaded = FALSE])

\* The module-level get_parser_for_source.
get_parser_for_source(W, source_name, source_config) ==
    LET p == get_parser(W, source_name)
    IN  IF p.raised \/ p.value # 0 THEN p
        ELSE create_base_parser(p, source_config, TRUE)

\* The module-level get_parser_for_url.
get_parser_for_url(W, url, source_config) ==
    LET p == ParserLoader_get_parser_for_url(W, url)
    IN  IF p.raised \/ p.value # 0 THEN p
        ELSE create_base_parser(p, source_config, TRUE)

NoCall ==
    [call |-> "none", name |-> <<>>, url |-> <<>>, config |-> EmptyConfig,
     save |-> FALSE, first_id |-> 1, raised |-> FALSE, value |-> 0]

\* A call returns (or raises): the loader and the disk are as W has them.
\* ret.value is the identity of the parser returned, 0 for None or a list;
\* ret.first_id is the identity the first instance constructed by the call
\* gets.
Returns(call, name, url, config, save, W) ==
    /\ parsers' = W.parsers
    /\ loaded' = W.loaded
    /\ sources_dir' = W.sources_dir
    /\ sources_json' = W.sources_json
    /\ class_config' = W.class_config
    /\ next_id' = W.next_id
    /\ ncalls' = ncalls + 1
    /\ ret' = [call |-> call, name |-> name, url |-> url, config |-> config,
               save |-> save, first_id |-> next_id,
               raised |-> W.raised, value |-> W.value]
    /\ UNCHANGED <<ext_classes, thr, tvars, pvars>>

Call_load_parsers ==
    /\ ncalls < MaxCalls
    /\ Returns("load_parsers", <<>>, <<>>, EmptyConfig, FALSE,
               load_parsers(Cur))

Call_list_available_parsers ==
    /\ ncalls < MaxCalls
    /\ Returns("list_available_parsers", <<>>, <<>>, EmptyConfig, FALSE,
               load_parsers(Cur))

Call_reload_parsers ==
    /\ ncalls < MaxCalls
    /\ Returns("reload_parsers", <<>>, <<>>, EmptyConfig, FALSE,
               reload_parsers(Cur))

Call_get_parser ==
    /\ ncalls < MaxCalls
    /\ \E source_name \in NamePool :
         Returns("get_parser", source_name, <<>>, EmptyConfig, FALSE,
                 get_parser(Cur, source_name))

Call_ParserLoader_get_parser_for_url ==
    /\ ncalls < MaxCalls
    /\ \E url \in UrlPool :
         Returns("ParserLoader.get_parser_for_url", <<>>, url, EmptyConfig,
                 FALSE, ParserLoader_get_parser_for_url(Cur, url))

Call_create_base_parser ==
    /\ ncalls < MaxCalls
    /\ \E source_config \in ConfigPool, save \in BOOLEAN :
         Returns("create_base_parser", <<>>, <<>>, source_config, save,
                 create_base_parser(Cur, source_config, save))

Call_get_parser_for_source ==
    /\ ncalls < MaxCalls
    /\ \E source_name \in NamePool, source_config \in ConfigPool :
         Returns("get_parser_for_source", source_name, <<>>, source_config,
                 TRUE, get_parser_for_source(Cur, source_name, source_config))

Call_get_parser_for_url ==
    /\ ncalls < MaxCalls
    /\ \E url \in UrlPool, source_config \in ConfigPool :
         Returns("get_parser_for_url", <<>>, url, source_config, TRUE,
                 get_parser_for_url(Cur, url, source_config))

(***************************************************************************)
(* Content cleaning (clean_content and the default remove_patterns)        *)
(***************************************************************************)

\* What \s matches among the characters of the model's texts.
Whitespace == {" ", "\t", "\n"}

RECURSIVE LStripWs(_)
LStripWs(s) == IF s # <<>> /\ Head(s) \in Whitespace THEN LStripWs(Tail(s)) ELSE s

\* str.strip()
StripWs(s) == LStripWs(RStrip(s, Whitespace))

\* re.IGNORECASE on the letters the patterns and the texts hold.
CaseFold(c) ==
    CASE c = "V" -> "v"
      [] c = "I" -> "i"
      [] c = "P" -> "p"
      [] OTHER   -> LowerChar(c)

\* The pattern element \d+ ; every other element of a pattern is a literal
\* character.
D == "\\d+"

\* The whole of s matches the sequence of pattern elements pat.
RECURSIVE FullMatch(_, _)
FullMatch(s, pat) ==
    IF pat = <<>> THEN s = <<>>
    ELSE IF Head(pat) = D
    THEN \E k \in 1..Len(s) :
            /\ \A i \in 1..k : IsDigit(s[i])
            /\ FullMatch(SubSeq(s, k + 1, Len(s)), Tail(pat))
    ELSE /\ s # <<>>
         /\ CaseFold(Head(s)) = CaseFold(Head(pat))
         /\ FullMatch(Tail(s), Tail(pat))

\* The end positions of the occurrences of pat in line.
MatchEnds(line, pat) ==
    { j \in 0..Len(line) :
        \E i \in 1..(j + 1) : FullMatch(SubSeq(line, i, j), pat) }

\* text.split('\n') and '\n'.join(lines): "." never matches a newline, so a
\* pattern without \s works on each line apart.
RECURSIVE SplitLines(_)
SplitLines(s) ==
    LET first == TakeUntil(s, {"\n"})
    IN  IF Len(first) = Len(s) THEN <<s>>
        ELSE <<first>> \o SplitLines(SubSeq(s, Len(first) + 2, Len(s)))

RECURSIVE JoinLines(_)
JoinLines(lines) ==
    IF Len(lines) = 1 THEN lines[1]
    ELSE lines[1] \o <<"\n">> \o JoinLines(Tail(lines))

\* re.sub(r'^\s*W\s*$', '', text): without re.MULTILINE ^ is the start of
\* the text and $ its end, so the pattern matches only when the whole
\* text is W between whitespace.
sub_whole(text, W) ==
    IF FullMatch(StripWs(text), W) THEN <<>> ELSE text

\* re.sub(r'.*X.*', '', text): every line that holds X is emptied; its
\* newline stays.
sub_line(text, X) ==
    LET lines == SplitLines(text)
    IN  JoinLines([i \in 1..Len(lines) |->
                     IF MatchEnds(lines[i], X) # {} THEN <<>> ELSE lines[i]])

\* re.sub(r'.*?X.*?', '', text): in a line, what precedes an occurrence of
\* X and that occurrence are removed, the rest of the line is searched
\* again.
RECURSIVE CutLazy(_, _)
CutLazy(line, X) ==
    LET ends == MatchEnds(line, X)
    IN  IF ends = {} THEN line
        ELSE LET e == CHOOSE j \in ends : \A k \in ends : j <= k
             IN  CutLazy(SubSeq(line, e + 1, Len(line)), X)

sub_lazy(text, X) ==
    LET lines == SplitLines(text)
    IN  JoinLines([i \in 1..Len(lines) |-> CutLazy(lines[i], X)])

\* re.sub(r'^\s*P.*$', '', text): matches when the text, after its leading
\* whitespace, starts with P and has no newline after it other than a last
\* character; that newline stays.
sub_head(text, P) ==
    LET t    == LStripWs(text)
        rest == SubSeq(t, Len(P) + 1, Len(t))
    IN  IF Len(t) >= Len(P) /\ FullMatch(SubSeq(t, 1, Len(P)), P)
        THEN IF ~Contains(rest, <<"\n">>) THEN <<>>
             ELSE IF ~Contains(SubSeq(rest, 1, Len(rest) - 1), <<"\n">>)
                  THEN <<"\n">> ELSE text
        ELSE text

\* re.sub(pattern, '', text, flags=re.IGNORECASE) for the four shapes the
\* default patterns have.
re_sub(pattern, text) ==
    CASE pattern.kind = "whole" -> sub_whole(text, pattern.word)
      [] pattern.kind = "line"  -> sub_line(text, pattern.word)
      [] pattern.kind = "lazy"  -> sub_lazy(text, pattern.word)
      [] pattern.kind = "head"  -> sub_head(text, pattern.word)

\* cfg_template['content']['remove_patterns'], in order: "whole" is
\* ^\s*W\s*$, "line" is .*X.*, "lazy" is .*?X.*?, "head" is ^\s*P.*$
remove_patterns ==
    <<
      [kind |-> "whole", word |-> <<>>],
      [kind |-> "whole", word |-> <<"U+5E7F", "U+544A">>],
      [kind |-> "whole", word |-> <<"U+63A8", "U+8350">>],
      [kind |-> "whole", word |-> <<"V", "I", "P">>],
      [kind |-> "whole", word |-> <<"U+8BA2", "U+9605">>],
      [kind |-> "line", word |-> <<"U+7B2C", D, "U+7AE0">>],
      [kind |-> "line", word |-> <<"U+7B2C", "(", D, "/", D, ")", "U+9875">>],
      [kind |-> "lazy", word |-> <<"U+7AE0", "U+8282", "U+9519", "U+8BEF", ",", "U+70B9", "U+6B64", "U+4E3E", "U+62A5">>],
      [kind |-> "head", word |-> <<"U+672C", "U+7AE0", "U+672A", "U+5B8C", "U+FF0C", "U+8BF7", "U+7FFB", "U+9875">>],
      [kind |-> "line", word |-> <<"U+672C", "U+5C0F", "U+7AE0", "U+8FD8", "U+672A", "U+5B8C", "U+FF0C", "U+8BF7", "U+70B9", "U+51FB", "U+4E0B", "U+4E00", "U+9875">>],
      [kind |-> "line", word |-> <<"U+8FD9", "U+7AE0", "U+6CA1", "U+6709", "U+7ED3", "U+675F", "U+FF0C", "U+8BF7", "U+70B9", "U+51FB", "U+4E0B", "U+4E00", "U+9875", "U+7EE7", "U+7EED">>],
      [kind |-> "line", word |-> <<"U+FF08", "U+672A", "U+5B8C", "U+5F85", "U+7EED", "U+FF09">>],
      [kind |-> "head", word |-> <<"U+672A", "U+5B8C", "U+5F85", "U+7EED">>],
      [kind |-> "head", word |-> <<"U+70B9", "U+51FB", "U+8FDB", "U+5165">>],
      [kind |-> "line", word |-> <<"U+6B22", "U+8FCE", "U+5E7F", "U+5927", "U+4E66", "U+53CB">>],
      [kind |-> "head", word |-> <<"U+66F4", "U+591A", "U+514D", "U+8D39", "U+7AE0", "U+8282">>] >>

\* for pattern in self.content_skip_text_patterns: text = re.sub(...)
RECURSIVE SubAll(_, _)
SubAll(text, patterns) ==
    IF patterns = <<>> THEN text
    ELSE LET replaced == re_sub(Head(patterns), text)
         IN  IF replaced = text THEN SubAll(text, Tail(patterns))
             ELSE SubAll(replaced, Tail(patterns))

\* re.sub(r'\n\s*\n', '\n\n', text): from a newline, the longest run of
\* whitespace that ends with a newline becomes two newlines.
RECURSIVE Collapse(_)
Collapse(s) ==
    IF s = <<>> THEN <<>>
    ELSE IF Head(s) # "\n" THEN <<Head(s)>> \o Collapse(Tail(s))
    ELSE LET t    == Tail(s)
             run  == Len(t) - Len(LStripWs(t))
             nls  == { k \in 1..run : t[k] = "\n" }
         IN  IF nls = {} THEN <<"\n">> \o Collapse(t)
             ELSE LET k == CHOOSE j \in nls : \A m \in nls : m <= j
                  IN  <<"\n", "\n">> \o Collapse(SubSeq(t, k + 1, Len(t)))

RECURSIVE LStripBlanks(_)
LStripBlanks(s) ==
    IF s # <<>> /\ Head(s) \in {" ", "\t"} THEN LStripBlanks(Tail(s)) ELSE s

\* re.sub(r'[ \t]+', ' ', text)
RECURSIVE Squeeze(_)
Squeeze(s) ==
    IF s = <<>> THEN <<>>
    ELSE IF Head(s) \in {" ", "\t"} THEN <<" ">> \o Squeeze(LStripBlanks(s))
    ELSE <<Head(s)>> \o Squeeze(Tail(s))

\* BaseBookSourceParser.clean_content with content_skip_text_patterns =
\* patterns.
clean_content(text, patterns) ==
    IF text = <<>> THEN <<>>
    ELSE StripWs(Squeeze(Collapse(SubAll(text, patterns))))

(***************************************************************************)
(* Configuration trees, copy.deepcopy and deep_update                      *)
(***************************************************************************)

\* A configuration is a tree of dicts, lists and scalars, written as a
\* function from key paths to nodes; the root is the path <<>>.  A dict or
\* a list is an object with an identity (id): two places hold the same
\* object when they hold the same id, and a change made through one is
\* seen through the other.  A scalar (str, int, None) is immutable and has
\* no identity.
ValNode(v) == [kind |-> "val", id |-> <<>>, items |-> <<v>>]
ListNode(items) == [kind |-> "list", id |-> <<>>, items |-> items]
DictNode == [kind |-> "dict", id |-> <<>>, items |-> <<>>]

Val(v) == [p \in {<<>>} |-> ValNode(v)]
List(items) == [p \in {<<>>} |-> ListNode(items)]

\* The dict literal {k: kv[k] for the keys k of the record kv}.
Dict(kv) ==
    [p \in {<<>>} \cup UNION { { <<k>> \o q : q \in DOMAIN kv[k] } : k \in DOMAIN kv } |->
        IF p = <<>> THEN DictNode ELSE kv[Head(p)][Tail(p)]]

\* {} : the dict without keys.
EmptyDict == [p \in {<<>>} |-> DictNode]

\* The objects of the literal t, named after who wrote it.
Own(t, owner) ==
    [p \in DOMAIN t |->
        IF t[p].kind = "val" THEN t[p] ELSE [t[p] EXCEPT !.id = <<owner>> \o p]]

\* The identities of the objects of t.
Ids(t) == { t[p].id : p \in { q \in DOMAIN t : t[q].kind # "val" } }

IsDict(t) == t[<<>>].kind = "dict"

\* d.keys()
Keys(t) == { p[1] : p \in { q \in DOMAIN t : Len(q) = 1 } }

\* d[k]
Sub(t, k) ==
    [q \in { Tail(p) : p \in { r \in DOMAIN t : r # <<>> /\ Head(r) = k } } |->
        t[<<k>> \o q]]

\* d[k] = s
Put(t, k, s) ==
    [p \in { r \in DOMAIN t : r = <<>> \/ Head(r) # k }
             \cup { <<k>> \o q : q \in DOMAIN s } |->
        IF p # <<>> /\ Head(p) = k THEN s[Tail(p)] ELSE t[p]]

\* (a copy that hands back the object it was given)
deepcopy_alias(t, at) == t

\* copy.deepcopy(t): every dict and list of t is a new object; at is the
\* place of the result the copy is made for, which names the new objects
\* (a copy that a later copy for the same place supersedes is no longer
\* referenced, so the two never meet).
deepcopy(t, at) ==
    [p \in DOMAIN t |->
        IF t[p].kind = "val" THEN t[p]
        ELSE [t[p] EXCEPT !.id = <<"new">> \o at \o p]]

\* (an update that replaces every key of u outright, as dict.update does)
\* result = copy.deepcopy(d); result.update(copy.deepcopy(u))
RECURSIVE UpdateFlat(_, _, _, _)
UpdateFlat(R, u, ks, at) ==
    IF ks = {} THEN R
    ELSE LET k == CHOOSE x \in ks : TRUE
             r == [tree    |-> Put(R.tree, k, deepcopy(Sub(u, k), at \o <<k>>)),
                   written |-> R.written \cup {R.tree[<<>>].id}]
         IN  UpdateFlat(r, u, ks \ {k}, at)

deep_update_flat(d, u, at) ==
    UpdateFlat([tree |-> deepcopy(d, at), written |-> {}], u, Keys(u), at)

\* (an update that overrides only the keys the base already holds)
RECURSIVE UpdateKnown(_, _, _, _)
UpdateKnown(R, u, ks, at) ==
    IF ks = {} THEN R
    ELSE LET k == CHOOSE x \in ks : TRUE
             v == Sub(u, k)
             r == IF k \notin Keys(R.tree) THEN R
                  ELSE IF IsDict(v) /\ IsDict(Sub(R.tree, k))
                  THEN [R EXCEPT !.tree = Put(R.tree, k,
                            UpdateKnown([tree |-> Sub(R.tree, k), written |-> {}],
                                        v, Keys(v), at \o <<k>>).tree)]
                  ELSE [R EXCEPT !.tree = Put(R.tree, k, deepcopy(v, at \o <<k>>))]
         IN  UpdateKnown(r, u, ks \ {k}, at)

deep_update_known_keys(d, u, at) ==
    UpdateKnown([tree |-> deepcopy(d, at), written |-> {}], u, Keys(u), at)

\* BaseBookSourceParser.deep_update(d, u).  The value is the returned tree
\* and the identities of the objects the call assigned into.
RECURSIVE deep_update(_, _, _)

\* One pass of `for k, v in u.items()` on the result R so far.
Assign(R, u, k, at) ==
    LET v == Sub(u, k)
        merged == deep_update(Sub(R.tree, k), v, at \o <<k>>)
    IN  IF IsDict(v) /\ k \in Keys(R.tree) /\ IsDict(Sub(R.tree, k))
        THEN [tree    |-> Put(R.tree, k, merged.tree),
              written |-> R.written \cup merged.written \cup {R.tree[<<>>].id}]
        ELSE [tree    |-> Put(R.tree, k, deepcopy(v, at \o <<k>>)),
              written |-> R.written \cup {R.tree[<<>>].id}]

\* The loop over the keys of u (each key is assigned once, so the order of
\* the keys does not matter).
RECURSIVE UpdateKeys(_, _, _, _)
UpdateKeys(R, u, ks, at) ==
    IF ks = {} THEN R
    ELSE LET k == CHOOSE x \in ks : TRUE
         IN  UpdateKeys(Assign(R, u, k, at), u, ks \ {k}, at)

deep_update(d, u, at) ==
    UpdateKeys([tree |-> deepcopy(d, at), written |-> {}], u, Keys(u), at)

\* An in-place change of the object i, seen in the tree t: a list gets one
\* more item, a dict one more key.
Touch(t, i) ==
    LET hit == { p \in DOMAIN t : t[p].id = i }
    IN  [q \in DOMAIN t \cup { p \o <<"zz">> : p \in { h \in hit : t[h].kind = "dict" } } |->
            IF q \notin DOMAIN t THEN ValNode("z")
            ELSE IF q \in hit /\ t[q].kind = "list"
                 THEN [t[q] EXCEPT !.items = Append(@, "z")]
                 ELSE t[q]]

\* BaseBookSourceParser.cfg_template, with one or two keys of each kind in
\* each section.
cfg_template ==
    Own(Dict([search       |-> Dict([items |-> List(<<".item">>),
                                     title |-> List(<<"h3">>)]),
              chapter_list |-> Dict([count_per_page |-> Val("0"),
                                     pagers |-> Dict([items   |-> Val(".pages a"),
                                                      current |-> Val(".active a")])]),
              content      |-> Dict([remove_tags |-> List(<<"script">>)])]),
        "template")

(***************************************************************************)
(* The specifications                                                      *)
(***************************************************************************)

\* The frame of a call that has not begun.
IdleFrame ==
    [op |-> "none", args |-> [none |-> TRUE], pc |-> "idle",
     next_page |-> NoneVal, acc |-> <<>>, fetched |-> <<>>, failed_at |-> 0,
     result |-> Pending, raised |-> FALSE]

\* The threads that call the registry.
Threads == {1, 2}

\* A thread's frame: the call, the statement it is at, the index of the
\* loop it is in, and the list json.load gave it.
ThreadIdle == [call |-> "none", pc |-> "idle", i |-> 0, sources |-> <<>>]

\* The registry before its first use, for the behaviours of one parser.
RegistryIdle ==
    /\ parsers = <<>>
    /\ loaded = FALSE
    /\ class_config = [c \in ClassNames |-> 0]
    /\ next_id = 1
    /\ ncalls = 0
    /\ ret = NoCall
    /\ thr = [t \in Threads |-> ThreadIdle]
    /\ parked = IdleFrame

\* A parser no operation has been called on.
ParserIdle ==
    /\ site = [u \in {} |-> DefaultPage]
    /\ op = "none"
    /\ args = [none |-> TRUE]
    /\ pc = "idle"
    /\ next_page = NoneVal
    /\ acc = <<>>
    /\ fetched = <<>>
    /\ failed_at = 0
    /\ result = Pending
    /\ raised = FALSE

ParserInit ==
    /\ cfg \in SourceConfigs
    /\ ParserIdle
    /\ RegistryIdle
    /\ sources_dir = FALSE
    /\ sources_json = NoFile
    /\ ext_classes = <<>>

ParserNext ==
    \/ Call_search_books
    \/ Step_search_books
    \/ Call_get_book_info
    \/ Step_get_book_info
    \/ Call_get_chapter_list
    \/ Step_get_chapter_list
    \/ Call_update_chapter_list
    \/ Step_update_chapter_list
    \/ Call_get_chapter_content
    \/ Step_get_chapter_content

RegistryInit ==
    /\ RegistryIdle
    /\ \E d \in Disks :
         /\ sources_dir = d.dir
         /\ ext_classes = d.ext
         /\ sources_json = d.json
    /\ cfg = Template
    /\ ParserIdle

RegistryNext ==
    \/ Call_load_parsers
    \/ Call_list_available_parsers
    \/ Call_reload_parsers
    \/ Call_get_parser
    \/ Call_ParserLoader_get_parser_for_url
    \/ Call_create_base_parser
    \/ Call_get_parser_for_source
    \/ Call_get_parser_for_url

(***************************************************************************)
(* The registry called from two threads, statement by statement            *)
(***************************************************************************)

\* The calls that begin with self.load_parsers(), and reload_parsers.
LazyCalls == {"get_parser", "get_parser_for_url", "list_available_parsers"}

\* A statement of thread t has run: the loader is as W has it and the
\* thread's frame is f.
Ran(t, W, f) ==
    /\ parsers' = W.parsers
    /\ loaded' = W.loaded
    /\ class_config' = W.class_config
    /\ next_id' = W.next_id
    /\ thr' = [thr EXCEPT ![t] = f]
    /\ UNCHANGED <<sources_dir, sources_json, ext_classes, ncalls, ret,
                   tvars, pvars>>

\* A thread enters a call.
Thread_call ==
    \E t \in Threads, call \in LazyCalls \cup {"reload_parsers"} :
        /\ thr[t].pc = "idle"
        /\ Ran(t, Cur, [thr[t] EXCEPT !.call = call,
                           !.pc = IF call = "reload_parsers"
                                  THEN "clear" ELSE "check"])

\* reload_parsers: self._parsers.clear()
Thread_clear ==
    \E t \in Threads :
        /\ thr[t].pc = "clear"
        /\ Ran(t, [Cur EXCEPT !.parsers = <<>>], [thr[t] EXCEPT !.pc = "reset"])

\* reload_parsers: self._loaded = False
Thread_reset ==
    \E t \in Threads :
        /\ thr[t].pc = "reset"
        /\ Ran(t, [Cur EXCEPT !.loaded = FALSE], [thr[t] EXCEPT !.pc = "check"])

\* load_parsers: the test of self._loaded and of the sources directory.
Thread_check ==
    \E t \in Threads :
        /\ thr[t].pc = "check"
        /\ IF loaded THEN Ran(t, Cur, [thr[t] EXCEPT !.pc = "done"])
           ELSE IF ~sources_dir
           THEN Ran(t, [Cur EXCEPT !.loaded = TRUE], [thr[t] EXCEPT !.pc = "done"])
           ELSE Ran(t, Cur, [thr[t] EXCEPT !.pc = "ext", !.i = 1])

\* load_parsers: one module of sources/ is imported and its class
\* constructed and appended; after the last one, sources.json is read.
Thread_ext ==
    \E t \in Threads :
        /\ thr[t].pc = "ext"
        /\ IF thr[t].i <= Len(ext_classes)
           THEN Ran(t, LoadExtensions(Cur, <<ext_classes[thr[t].i]>>),
                    [thr[t] EXCEPT !.i = @ + 1])
           ELSE IF sources_json.exists
           THEN Ran(t, Cur, [thr[t] EXCEPT !.pc = "json", !.i = 1,
                                           !.sources = sources_json.list])
           ELSE Ran(t, Cur, [thr[t] EXCEPT !.pc = "set"])

\* load_parsers: one config of the list is made a parser and appended.
Thread_json ==
    \E t \in Threads :
        /\ thr[t].pc = "json"
        /\ IF thr[t].i <= Len(thr[t].sources)
           THEN LET W == LoadSource(Cur, thr[t].sources[thr[t].i])
                IN  IF W.raised
                    THEN Ran(t, W, [thr[t] EXCEPT !.pc = "raised"])
                    ELSE Ran(t, W, [thr[t] EXCEPT !.i = @ + 1])
           ELSE Ran(t, Cur, [thr[t] EXCEPT !.pc = "set"])

\* load_parsers: self._loaded = True; the caller then only reads the list.
Thread_set ==
    \E t \in Threads :
        /\ thr[t].pc = "set"
        /\ Ran(t, [Cur EXCEPT !.loaded = TRUE], [thr[t] EXCEPT !.pc = "done"])

\* The registry is new, or a first load has completed, when the threads
\* start.
ThreadsInit ==
    /\ \E d \in Disks, first \in BOOLEAN :
         LET W0 == [parsers |-> <<>>, loaded |-> FALSE, sources_dir |-> d.dir,
                    sources_json |-> d.json,
                    class_config |-> [c \in ClassNames |-> 0],
                    next_id |-> 1, raised |-> FALSE, value |-> 0]
             W  == IF first
                   THEN LET W1 == IF d.dir
                                  THEN LoadExtensions(W0, d.ext) ELSE W0
                            W2 == IF W1.sources_json.exists
                                  THEN LoadSources(W1, W1.sources_json.list)
                                  ELSE W1
                        IN  [W2 EXCEPT !.loaded = TRUE]
                   ELSE W0
         IN  /\ sources_dir = d.dir
             /\ ext_classes = d.ext
             /\ sources_json = d.json
             /\ parsers = W.parsers
             /\ loaded = W.loaded
             /\ class_config = W.class_config
             /\ next_id = W.next_id
    /\ ncalls = 0
    /\ ret = NoCall
    /\ thr = [t \in Threads |-> ThreadIdle]
    /\ parked = IdleFrame
    /\ cfg = Template
    /\ ParserIdle

ThreadsNext ==
    \/ Thread_call
    \/ Thread_clear
    \/ Thread_reset
    \/ Thread_check
    \/ Thread_ext
    \/ Thread_json
    \/ Thread_set

(***************************************************************************)
(* Overlapping calls on one parser instance                                *)
(***************************************************************************)

\* The frame of the running coroutine.
Frame ==
    [op |-> op, args |-> args, pc |-> pc, next_page |-> next_page,
     acc |-> acc, fetched |-> fetched, failed_at |-> failed_at,
     result |-> result, raised |-> raised]

\* The running coroutine's frame becomes f.
Resume(f) ==
    /\ op' = f.op
    /\ args' = f.args
    /\ pc' = f.pc
    /\ next_page' = f.next_page
    /\ acc' = f.acc
    /\ fetched' = f.fetched
    /\ failed_at' = f.failed_at
    /\ result' = f.result
    /\ raised' = f.raised

\* (an update_chapter_list that would switch the instance to unpaged
\* listing once it has run)
InstanceAfter_remembering(o) ==
    IF o = "update_chapter_list"
    THEN [cfg EXCEPT !.chapter_count_per_page = 0] ELSE cfg

\* The instance after the statements of operation o that ran up to an
\* await: no operation assigns to self or changes self.source_config.
InstanceAfter(o) == cfg

\* The event loop suspends the running coroutine at its await (or before
\* its call begins, or after it has returned) and resumes the other one.
Switch ==
    /\ parked # Frame
    /\ Resume(parked)
    /\ parked' = Frame
    /\ cfg' = InstanceAfter(op)
    /\ UNCHANGED <<site, parsers, loaded, sources_dir, sources_json,
                   ext_classes, class_config, next_id, ncalls, ret, thr>>

\* The configurations of the instance the overlapping calls share: one
\* that searches and follows section links, one with a paged chapter list.
TaskConfigs ==
    { Cfg(SearchUrlFmt, Sel,     NoneVal, NoneVal, <<>>, 0, <<>>,    NoneVal,    Sel),
      Cfg(<<>>,         NoneVal, Sel,     Sel,     <<>>, 2, DotHtml, PageUrlFmt, Sel) }

TasksInit ==
    /\ cfg \in TaskConfigs
    /\ ParserIdle
    /\ RegistryIdle
    /\ sources_dir = FALSE
    /\ sources_json = NoFile
    /\ ext_classes = <<>>

\* A coroutine calls search_books, update_chapter_list or
\* get_chapter_content with one of a few arguments.
Task_call ==
    /\ pc = "idle"
    /\ \/ Begin_search_books(1)
       \/ Begin_update_chapter_list(1)
       \/ Begin_get_chapter_content(S1)

TasksNext ==
    \/ Task_call
    \/ Call_get_book_info
    \/ Call_get_chapter_list
    \/ Step_search_books
    \/ Step_get_book_info
    \/ Step_get_chapter_list
    \/ Step_update_chapter_list
    \/ Step_get_chapter_content
    \/ Switch

(***************************************************************************)
(* clean_content applied to noisy texts                                    *)
(***************************************************************************)

\* The most pieces a text of the model is made of.
MaxPieces == 3

\* The pieces of a chapter text: a letter, a blank, a newline, an ad word,
\* a chapter heading and a "to be continued" notice.
Pieces ==
    { <<"a">>, <<" ">>, <<"\n">>,
      <<"U+5E7F", "U+544A">>,
      <<"U+7B2C", "1", "U+7AE0">>,
      <<"U+672A", "U+5B8C", "U+5F85", "U+7EED">> }

RECURSIVE TextsOf(_)
TextsOf(n) ==
    IF n = 0 THEN {<<>>}
    ELSE LET shorter == TextsOf(n - 1)
         IN  shorter \cup { t \o p : t \in shorter, p \in Pieces }

Texts == TextsOf(MaxPieces)

\* A parser with the default remove_patterns, about to clean a text.
CleanInit ==
    /\ cfg = Template
    /\ site = [u \in {} |-> DefaultPage]
    /\ op = "clean_content"
    /\ args \in { [text |-> x] : x \in Texts }
    /\ pc = "idle"
    /\ next_page = NoneVal
    /\ acc = <<>>
    /\ fetched = <<>>
    /\ failed_at = 0
    /\ result = Pending
    /\ raised = FALSE
    /\ RegistryIdle
    /\ sources_dir = FALSE
    /\ sources_json = NoFile
    /\ ext_classes = <<>>

\* cleaned = parser.clean_content(text)
Clean_first ==
    /\ pc = "idle"
    /\ op = "clean_content"
    /\ acc' = clean_content(args.text, remove_patterns)
    /\ pc' = "loop"
    /\ UNCHANGED <<cfg, site, op, args, next_page, fetched, failed_at, result, raised, rvars>>

\* parser.clean_content(cleaned)
Clean_again ==
    /\ pc = "loop"
    /\ op = "clean_content"
    /\ result' = RetStr(clean_content(acc, remove_patterns))
    /\ pc' = "done"
    /\ UNCHANGED <<cfg, site, op, args, next_page, acc, fetched, failed_at, raised, rvars>>

CleanNext ==
    \/ Clean_first
    \/ Clean_again

(***************************************************************************)
(* deep_update and the constructor applied to configurations               *)
(***************************************************************************)

\* The first arguments of deep_update: the template, a dict that holds a
\* scalar where the template holds a dict, and the empty dict.
Bases ==
    { cfg_template,
      Own(Dict([search |-> Val("s"), name |-> Val("n")]), "base"),
      Own(EmptyDict, "base") }

\* Overrides that set one leaf path.
LeafOverrides ==
    { Dict([search |-> Dict([title |-> List(<<"h1", "h2">>)])]),
      Dict([chapter_list |-> Dict([count_per_page |-> Val("20")])]),
      Dict([chapter_list |-> Dict([pagers |-> Dict([items |-> Val(".p")])])]),
      Dict([search |-> Val("s")]),
      Dict([content |-> Val("None")]),
      Dict([name |-> Val("n")]) }

\* Overrides as sources.json and the routers hold them: name and url, and
\* some sections.
NamedOverrides ==
    { Dict([name |-> Val("n"), url |-> Val("u")]),
      Dict([name |-> Val("n"), url |-> Val("u"),
            search  |-> Dict([title |-> List(<<"h1", "h2">>)]),
            content |-> Dict([remove_tags |-> List(<<".ad">>)])]),
      Dict([name |-> Val("n"), url |-> Val("u"),
            search  |-> Dict([url |-> Val("/s?q={}")]),
            chapter_list |-> Dict([pagers |-> EmptyDict])]),
      Dict([name |-> Val("n"), url |-> Val("u"), search |-> Val("/s?q={}")]),
      Dict([name |-> Val("n"), url |-> Val("u"), content |-> Val("None")]),
      Dict([name |-> Val("n")]) }

Overrides ==
    { Own(u, "override") : u \in LeafOverrides \cup NamedOverrides \cup {EmptyDict} }

\* The class-level source_config of the class that is constructed: none
\* (BaseBookSourceParser itself), or that of a specialised parser.
NoClassConfig == Own(Val("None"), "class")

ClassConfigs ==
    { NoClassConfig,
      Own(Dict([name |-> Val("e"), url |-> Val("u"),
                content |-> Dict([remove_tags |-> List(<<".ad">>)])]), "class"),
      Own(Dict([name |-> Val("e"), url |-> Val("u"),
                content |-> EmptyDict,
                chapter_list |-> Dict([count_per_page |-> Val("20")])]), "class"),
      Own(Dict([name |-> Val("e"), url |-> Val("u")]), "class") }

\* self.source_config['content'][key].extend(cfg_template['content'][key])
\* when the class-level list exists (lines 125-128).
ExtendFromTemplate(c, key) ==
    LET p == <<"content", key>>
    IN  IF p \in DOMAIN c /\ c[p].kind = "list"
        THEN [c EXCEPT ![p].items = @ \o cfg_template[p].items]
        ELSE c

\* BaseBookSourceParser.__init__ up to the reads of name and url: the
\* resolved source_config, or raised when self.source_config['content']
\* (line 125) or glom(..., 'name') / glom(..., 'url') (lines 135, 137)
\* raises.
Resolve(c, source_config) ==
    LET has_class == c # NoClassConfig
        extended  == ExtendFromTemplate(c, "remove_tags")
        defaults  == IF has_class
                     THEN deep_update(cfg_template, extended, <<>>).tree
                     ELSE deepcopy(cfg_template, <<>>)
        resolved  == deep_update(defaults, source_config, <<>>).tree
    IN  IF has_class /\ <<"content">> \notin DOMAIN c
        THEN [raised |-> TRUE, tree |-> EmptyDict]
        ELSE IF <<"name">> \notin DOMAIN resolved \/ <<"url">> \notin DOMAIN resolved
        THEN [raised |-> TRUE, tree |-> EmptyDict]
        ELSE [raised |-> FALSE, tree |-> resolved]

RetConfig(R) == [kind |-> "dict", value |-> R]

\* A call of deep_update(base, override), or a construction of a parser of
\* a class with a caller-supplied source_config, is about to be made.
ConfigInit ==
    /\ cfg = Template
    /\ site = [u \in {} |-> DefaultPage]
    /\ \/ /\ op = "deep_update"
          /\ args \in { [base |-> d, override |-> u] : d \in Bases, u \in Overrides }
       \/ /\ op = "__init__"
          /\ args \in { [base |-> c, override |-> u] : c \in ClassConfigs, u \in Overrides }
       \/ /\ op = "merge_three"
          /\ args \in { [base |-> d, override |-> u, last |-> w] :
                          d \in Bases, u \in Overrides, w \in Overrides }
    /\ pc = "idle"
    /\ next_page = NoneVal
    /\ acc = [base |-> args.base, override |-> args.override,
              result |-> EmptyDict, touched |-> "none"]
    /\ fetched = <<>>
    /\ failed_at = 0
    /\ result = Pending
    /\ raised = FALSE
    /\ RegistryIdle
    /\ sources_dir = FALSE
    /\ sources_json = NoFile
    /\ ext_classes = <<>>

\* result = BaseBookSourceParser.deep_update(base, override)
Call_deep_update ==
    /\ pc = "idle"
    /\ op = "deep_update"
    /\ LET R == deep_update(args.base, args.override, <<>>)
       IN  /\ result' = RetConfig(R)
           /\ acc' = [acc EXCEPT !.result = R.tree]
    /\ pc' = "done"
    /\ UNCHANGED <<cfg, site, op, args, next_page, fetched, failed_at, raised, rvars>>

\* parser = cls(source_config)
Call_init ==
    /\ pc = "idle"
    /\ op = "__init__"
    /\ LET R == Resolve(args.base, args.override)
       IN  /\ raised' = R.raised
           /\ result' = RetConfig([tree |-> R.tree, written |-> {}])
           /\ acc' = [acc EXCEPT !.result = R.tree]
    /\ pc' = "done"
    /\ UNCHANGED <<cfg, site, op, args, next_page, fetched, failed_at, rvars>>

\* The three configs of the constructor merged in the two groupings:
\* deep_update(deep_update(A, B), C), kept as the result, and
\* deep_update(A, deep_update(B, C)), kept beside it.
Call_merge_three ==
    /\ pc = "idle"
    /\ op = "merge_three"
    /\ LET AB   == deep_update(args.base, args.override, <<>>).tree
           BC   == deep_update(args.override, args.last, <<>>).tree
       IN  /\ result' = RetConfig(deep_update(AB, args.last, <<>>))
           /\ acc' = [acc EXCEPT !.result = deep_update(args.base, BC, <<>>).tree]
    /\ pc' = "done"
    /\ UNCHANGED <<cfg, site, op, args, next_page, fetched, failed_at, raised, rvars>>

\* The caller changes, in place, the object i; every structure that holds
\* i shows the change.
TouchAll(i, side) ==
    /\ acc' = [base     |-> Touch(acc.base, i),
               override |-> Touch(acc.override, i),
               result   |-> Touch(acc.result, i),
               touched  |-> side]
    /\ pc' = "changed"
    /\ UNCHANGED <<cfg, site, op, args, next_page, fetched, failed_at, result, raised, rvars>>

\* A later change to the result of deep_update.
Change_result ==
    /\ pc = "done"
    /\ op = "deep_update"
    /\ \E i \in Ids(acc.result) : TouchAll(i, "result")

\* A later change to one of the inputs of deep_update.
Change_input ==
    /\ pc = "done"
    /\ op = "deep_update"
    /\ \E i \in Ids(acc.base) \cup Ids(acc.override) : TouchAll(i, "input")

ConfigNext ==
    \/ Call_deep_update
    \/ Call_init
    \/ Call_merge_three
    \/ Change_result
    \/ Change_input

(***************************************************************************)
(* is_valid_chapter_link applied to anchors                                *)
(***************************************************************************)

\* The most pieces a short title of the model is made of.
MaxTitlePieces == 2

\* The pieces of a title: a chapter marker, a digit, a letter, a blank, the
\* word "Chapter", a navigation word and a word of two other characters.
TitlePieces ==
    { <<"U+7B2C">>, <<"3">>, <<"a">>, <<" ">>,
      <<"C", "h", "a", "p", "t", "e", "r">>,
      <<"U+9996", "U+9875">>, <<"U+91CD", "U+9022">> }

RECURSIVE TitlesOf(_)
TitlesOf(n) ==
    IF n = 0 THEN {<<>>}
    ELSE LET shorter == TitlesOf(n - 1)
         IN  shorter \cup { t \o p : t \in shorter, p \in TitlePieces }

\* n times the character c
Rep(c, n) == [i \in 1..n |-> c]

Title_Chapter3 == <<"U+7B2C", "3", "U+7AE0", " ", "U+91CD", "U+9022">>
Title_Home == <<"U+9996", "U+9875">>

\* Short titles, the two titles the specification names, and titles at and
\* around the length limits, with and without a digit.
Titles ==
    TitlesOf(MaxTitlePieces)
        \cup { NoneVal, Title_Chapter3, Title_Home }
        \cup { Rep(c, n) : c \in {"1", "a"},
                           n \in {MaxTitleLen - 1, MaxTitleLen, MaxTitleLen + 1} }
        \cup { Rep("a", n) \o <<"U+7AE0">> : n \in {MaxTitleLen - 1, MaxTitleLen} }

Hrefs == { NoneVal, <<>>, <<"/", "c", "/", "1">>, <<"#">>, <<"/", "U+9996", "U+9875">> }

RetBool(b) == [kind |-> "bool", value |-> b]

\* A parser about to judge an anchor.
LinkInit ==
    /\ cfg = Template
    /\ site = [u \in {} |-> DefaultPage]
    /\ op = "is_valid_chapter_link"
    /\ args \in { [title |-> t, href |-> h] : t \in Titles, h \in Hrefs }
    /\ pc = "idle"
    /\ next_page = NoneVal
    /\ acc = <<>>
    /\ fetched = <<>>
    /\ failed_at = 0
    /\ result = Pending
    /\ raised = FALSE
    /\ RegistryIdle
    /\ sources_dir = FALSE
    /\ sources_json = NoFile
    /\ ext_classes = <<>>

\* valid = parser.is_valid_chapter_link(title, href)
Call_is_valid_chapter_link ==
    /\ pc = "idle"
    /\ op = "is_valid_chapter_link"
    /\ result' = RetBool(is_valid_chapter_link(args.title, args.href))
    /\ pc' = "done"
    /\ UNCHANGED <<cfg, site, op, args, next_page, acc, fetched, failed_at, raised, rvars>>

LinkNext ==
    \/ Call_is_valid_chapter_link

(***************************************************************************)
(* next_section_match applied to pairs of URLs                             *)
(***************************************************************************)

\* Section URLs: a stem, maybe a part suffix, maybe ".html".
SecStems == { <<"1">>, <<"1", "2">>, <<"m">>, <<"l">> }
SecSuffixes == { <<>>, <<"_", "2">>, <<"_", "3">> }
SecUrls ==
    { SiteUrl \o <<"/">> \o stem \o suffix \o ext :
        stem \in SecStems, suffix \in SecSuffixes, ext \in {<<>>, DotHtml} }

\* A parser about to compare a next-section link with the current URL.
MatchInit ==
    /\ cfg = Template
    /\ site = [u \in {} |-> DefaultPage]
    /\ op = "next_section_match"
    /\ args \in { [next_sec |-> n, cur_sec |-> c] : n \in SecUrls, c \in SecUrls }
    /\ pc = "idle"
    /\ next_page = NoneVal
    /\ acc = <<>>
    /\ fetched = <<>>
    /\ failed_at = 0
    /\ result = Pending
    /\ raised = FALSE
    /\ RegistryIdle
    /\ sources_dir = FALSE
    /\ sources_json = NoFile
    /\ ext_classes = <<>>

\* matched = parser.next_section_match(next_sec, cur_sec)
Call_next_section_match ==
    /\ pc = "idle"
    /\ op = "next_section_match"
    /\ result' = RetBool(next_section_match(args.next_sec, args.cur_sec))
    /\ pc' = "done"
    /\ UNCHANGED <<cfg, site, op, args, next_page, acc, fetched, failed_at, raised, rvars>>

MatchNext ==
    \/ Call_next_section_match

(***************************************************************************)
(* A full listing and an incremental update of the same book               *)
(***************************************************************************)

\* The while loop of get_chapter_list and of update_chapter_list on the
\* site s, from the page at u: a URL the site does not serve makes
\* raise_for_status raise.
RECURSIVE ListLoop(_, _, _, _)
ListLoop(s, u, chapters, offset) ==
    IF ~Truthy(u) THEN [ok |-> TRUE, chapters |-> chapters]
    ELSE IF u \notin DOMAIN s THEN [ok |-> FALSE, chapters |-> chapters]
    ELSE LET chap == parse_chapter_list(s[u], BookUrl, offset + Len(chapters))
         IN  ListLoop(s, get_next_chapter_list_page(s[u], BookUrl),
                      chapters \o chap, offset)

\* get_chapter_list(book_url) on the site s
get_chapter_list(s) ==
    LET loop == ListLoop(s, BookUrl, <<>>, 0)
    IN  IF loop.ok THEN loop.chapters ELSE <<>>

\* update_chapter_list(book_url, existing_chapter_count) on the site s
update_chapter_list(s, existing_chapter_count) ==
    LET c == cfg.chapter_count_per_page
        page_count == update_page_count(existing_chapter_count)
        loop == ListLoop(s, chapter_list_page_url(page_count + 1, BookUrl),
                         <<>>, page_count * c)
    IN  IF c <= 0 THEN Drop(get_chapter_list(s), existing_chapter_count)
        ELSE IF loop.ok THEN NewerThan(loop.chapters, existing_chapter_count)
        ELSE <<>>

\* The most listing pages a book of the model has.
MaxPages == 2

\* Page k of a listing of P pages: two valid links and a link to the next
\* page on each but the last, the links of last and no next link there.
BookPage(k, P, last) ==
    IF k < P THEN ListPage_(TRUE, FullList, <<>>, ListPage(k + 1), <<>>, NoElem)
    ELSE ListPage_(TRUE, last, <<>>, NoElem, <<>>, NoElem)

\* What a site answers for a page number after the last page.
Beyond == {"not found", "no list", "last page"}

\* A book of P pages: the book URL and the URL of page 1 serve page 1.
BookSite(P, last, beyond) ==
    [u \in {BookUrl} \cup {ListPage(k) : k \in 1..P}
           \cup (IF beyond = "not found" THEN {}
                 ELSE {ListPage(k) : k \in (P + 1)..(MaxPages + 1)}) |->
        IF u = BookUrl THEN BookPage(1, P, last)
        ELSE LET k == CHOOSE k \in 1..(MaxPages + 1) : u = ListPage(k)
             IN  IF k <= P THEN BookPage(k, P, last)
                 ELSE IF beyond = "no list" THEN DefaultPage
                 ELSE BookPage(P, P, last)]

BookSites ==
    { BookSite(P, last, beyond) :
        P \in 1..MaxPages, last \in {FullList, ShortList}, beyond \in Beyond }

ListInit ==
    /\ cfg \in { c \in SourceConfigs : Truthy(c.next_chapter_list_selector) }
    /\ site \in BookSites
    /\ op = "update_chapter_list"
    /\ args \in { [book_url |-> BookUrl, existing_chapter_count |-> n]
                    : n \in 0..MaxExisting }
    /\ pc = "idle"
    /\ next_page = NoneVal
    /\ acc = <<>>
    /\ fetched = <<>>
    /\ failed_at = 0
    /\ result = Pending
    /\ raised = FALSE
    /\ RegistryIdle
    /\ sources_dir = FALSE
    /\ sources_json = NoFile
    /\ ext_classes = <<>>

\* chapters = await parser.get_chapter_list(book_url)
Call_full_listing ==
    /\ pc = "idle"
    /\ op = "update_chapter_list"
    /\ acc' = get_chapter_list(site)
    /\ pc' = "listed"
    /\ UNCHANGED <<cfg, site, op, args, next_page, fetched, failed_at, result,
                   raised, rvars>>

\* new = await parser.update_chapter_list(book_url, existing_chapter_count)
Call_incremental_update ==
    /\ pc = "listed"
    /\ op = "update_chapter_list"
    /\ result' = RetList(update_chapter_list(site, args.existing_chapter_count))
    /\ pc' = "done"
    /\ UNCHANGED <<cfg, site, op, args, next_page, acc, fetched, failed_at,
                   raised, rvars>>

ListNext ==
    \/ Call_full_listing
    \/ Call_incremental_update

vars == <<pvars, rvars>>

ParserSpec == ParserInit /\ [][ParserNext]_vars

RegistrySpec == RegistryInit /\ [][RegistryNext]_vars

TasksSpec == TasksInit /\ [][TasksNext]_vars

ThreadsSpec == ThreadsInit /\ [][ThreadsNext]_vars

CleanSpec == CleanInit /\ [][CleanNext]_vars

ConfigSpec == ConfigInit /\ [][ConfigNext]_vars

LinkSpec == LinkInit /\ [][LinkNext]_vars

MatchSpec == MatchInit /\ [][MatchNext]_vars

ListSpec == ListInit /\ [][ListNext]_vars

(***************************************************************************)
(* Properties of the fetch-and-paginate loops                              *)
(***************************************************************************)

NoDuplicates(l) == \A i, j \in 1..Len(l) : i # j => l[i] # l[j]

IsListOp == op \in {"get_chapter_list", "update_chapter_list"}

\* C1: within one get_chapter_content call no section URL is fetched twice
\* (get_chapter_next_section never returns the page just fetched, nor one
\* fetched earlier in the call).
C1_NoSectionFetchedTwice ==
    op = "get_chapter_content" => NoDuplicates(fetched)

\* C2: get_chapter_list and update_chapter_list never fetch a list page
\* again: a next link or pager entry that points to the page just fetched
\* or to one fetched earlier ends the loop.
C2_NoListPageFetchedTwice ==
    IsListOp => NoDuplicates(fetched)

\* C3: when a fetch of a call fails, it is the last fetch of the call, no
\* exception reaches the caller, and the call returns the empty list
\* (search, chapter list, update) or None (book info, chapter content),
\* whatever the earlier pages of the call had produced.
C3_FailedFetchAborts ==
    failed_at # 0 =>
        /\ Len(fetched) = failed_at
        /\ pc = "done"
        /\ ~raised
        /\ Len(result.value) = 0
        /\ result.kind = IF op \in {"get_book_info", "get_chapter_content"}
                         THEN "None" ELSE "list"

\* C3 witness: the second fetch of a chapter listing failed after the first
\* page had produced chapters.
C3_Witness ==
    /\ op = "get_chapter_list"
    /\ failed_at = 2
    /\ acc # <<>>
    /\ result.kind = "list"
    /\ result.value = <<>>

IsPagedUpdate ==
    /\ op = "update_chapter_list"
    /\ cfg.chapter_count_per_page > 0

\* C4: with count_per_page = c > 0 the first fetch of
\* update_chapter_list(book_url, n) is at the URL of page n // c + 1 built
\* from the page_url format (the book URL itself can stand for page 1
\* only), and every chapter returned has chapter_number > n.
C4_FirstFetchAtStartPage ==
    (IsPagedUpdate /\ fetched # <<>>) =>
        LET page == (args.existing_chapter_count
                       \div cfg.chapter_count_per_page) + 1
        IN  /\ fetched[1] =
                 IF Truthy(cfg.chapter_list_page_url_fmt)
                 THEN Format(cfg.chapter_list_page_url_fmt,
                             RStrip(args.book_url,
                                    CharsOf(cfg.chapter_list_page_url_skip_endding)),
                             page, <<>>)
                 ELSE IF page = 1 THEN args.book_url ELSE ListPage(page)
            /\ \A i \in 1..Len(result.value) :
                 result.value[i].chapter_number > args.existing_chapter_count

\* C5: chapter numbers are sequential from the offset: the chapters a
\* listing pass has gathered are numbered offset + 1, offset + 2, ... in
\* order, without gaps (a rejected link takes no number), and the list
\* get_chapter_list returns has chapter_number i at position i.
C5_ChapterNumbersSequential ==
    IsListOp =>
        LET offset == IF IsPagedUpdate
                      THEN (args.existing_chapter_count
                              \div cfg.chapter_count_per_page)
                           * cfg.chapter_count_per_page
                      ELSE 0
        IN  /\ \A i \in 1..Len(acc) : acc[i].chapter_number = offset + i
            /\ (op = "get_chapter_list" /\ result.kind = "list") =>
                 \A i \in 1..Len(result.value) :
                    result.value[i].chapter_number = i

\* C5 witness: a listing of two pages, each with a rejected link between
\* two accepted ones, returned four chapters.
C5_Witness ==
    /\ op = "get_chapter_list"
    /\ pc = "done"
    /\ Len(fetched) = 2
    /\ Len(result.value) = 4

(***************************************************************************)
(* Properties of the registry                                              *)
(***************************************************************************)

\* C6: a registry miss is not an error: get_parser_for_source and
\* get_parser_for_url, for every name or URL and every supplied config (the
\* default empty config included), raise nothing and return a parser
\* instance, which is then registered.
C6_MissReturnsParser ==
    ret.call \in {"get_parser_for_source", "get_parser_for_url"} =>
        /\ ~ret.raised
        /\ \E i \in 1..Len(parsers) : parsers[i].id = ret.value

\* The first parser, in registry order, that passes Test; 0 for None.
FirstParser(Test(_)) ==
    LET hits == {i \in 1..Len(parsers) : Test(parsers[i])}
    IN  IF hits = {} THEN 0
        ELSE parsers[CHOOSE i \in hits : \A j \in hits : i <= j].id

\* C7: get_parser(name) returns the first registered parser whose
\* normalised alias list (name, show_name, each lower-cased and stripped of
\* spaces, hyphens and underscores) holds the normalised query, so a parser
\* registered under name N is found by the query N.
C7_GetParserMatchesNormalisedAliases ==
    (ret.call = "get_parser" /\ ~ret.raised) =>
        LET Matches(p) ==
                \E k \in 1..Len(get_parser_name(p)) :
                    parser_key(get_parser_name(p)[k]) = parser_key(ret.name)
        IN  ret.value = FirstParser(Matches)

\* The host of a URL: its authority without the port.
HostOf(url) == TakeUntil(Netloc(url), {":"})

\* C8: get_parser_for_url(url) returns the first parser in registry order
\* that can handle the URL, where a parser not named 'base' can handle a
\* URL if and only if the URL's host equals one of the parser's configured
\* domains (host names being compared without regard to case).
C8_UrlMatchesConfiguredDomain ==
    (ret.call = "ParserLoader.get_parser_for_url" /\ ~ret.raised) =>
        LET Handles(p) ==
                \/ p.name = Name_base
                \/ \E k \in 1..Len(p.domains) :
                      Lower(p.domains[k]) = Lower(HostOf(ret.url))
        IN  ret.value = FirstParser(Handles)

\* C9: the persisted source list is append-only: a create_base_parser call
\* with save=True that returns has written the previous list with exactly
\* its config added at the end, and the list changes in no other way: not
\* by load_parsers, get_parser, get_parser_for_url, reload_parsers,
\* list_available_parsers or create_base_parser with save=False.
C9_PersistedListAppendOnly ==
    [][ LET existing == IF sources_json.exists THEN sources_json.list ELSE <<>>
            appended == File(Append(existing, ret'.config))
        IN  /\ (ret'.call = "create_base_parser" /\ ret'.save /\ ~ret'.raised)
                  => sources_json' = appended
            /\ sources_json' # sources_json
                  => /\ ret'.save
                     /\ ret'.call \in {"create_base_parser",
                                       "get_parser_for_source",
                                       "get_parser_for_url"}
                     /\ sources_json' = appended
      ]_vars

\* C9 witness: create_base_parser(config, save=True) returned and the file,
\* which held one config before, holds that one followed by the new one.
C9_Witness ==
    /\ ret.call = "create_base_parser"
    /\ ret.save
    /\ ~ret.raised
    /\ sources_json = File(<<CfgAb, ret.config>>)
    /\ ret.config = CfgA_b

\* What the registry says of its parsers, their identity left out.
Described(ps) ==
    [i \in 1..Len(ps) |->
        [cls |-> ps[i].cls, name |-> ps[i].name, show_name |-> ps[i].show_name,
         domains |-> ps[i].domains, template_copies |-> ps[i].template_copies]]

\* A process that has just started on the present disk.
Fresh ==
    [parsers |-> <<>>, loaded |-> FALSE, sources_dir |-> sources_dir,
     sources_json |-> sources_json, class_config |-> [c \in ClassNames |-> 0],
     next_id |-> 1, raised |-> FALSE, value |-> 0]

\* C10: when reload_parsers() has returned, the registry holds exactly what
\* a first load from the same extension directory and persisted list would
\* hold, no parser instance from before the reload remains, and the loaded
\* flag is true.
C10_ReloadEqualsFirstLoad ==
    (ret.call = "reload_parsers" /\ ~ret.raised) =>
        /\ loaded
        /\ \A i \in 1..Len(parsers) : parsers[i].id >= ret.first_id
        /\ Described(parsers) = Described(load_parsers(Fresh).parsers)

(***************************************************************************)
(* Properties of the registry under concurrent callers                     *)
(***************************************************************************)

\* The class and name of each registered parser, in order.
Registered(ps) == [i \in 1..Len(ps) |-> [cls |-> ps[i].cls, name |-> ps[i].name]]

\* How often x occurs in the sequence l.
Count(l, x) == Cardinality({i \in 1..Len(l) : l[i] = x})

SameCallSameResult ==
    (/\ pc = "done" /\ parked.pc = "done"
     /\ op = parked.op
     /\ args = parked.args
     /\ failed_at = 0 /\ parked.failed_at = 0)
        => (result = parked.result /\ fetched = parked.fetched)

C13_CleanContentIdempotent ==
    (op = "clean_content" /\ pc = "done") => result.value = acc

(***************************************************************************)
(* Properties of configuration merging                                     *)
(***************************************************************************)

\* C14: deep_update(base, override) never mutates base or override and
\* returns a new structure that shares no mutable sub-structure with either
\* input: the call assigns into no object of an input, the result holds no
\* object of an input, and a later change to the result is not seen
\* through the inputs, nor a change to an input through the result.
C14_DeepUpdateSharesNothing ==
    (op = "deep_update" /\ pc \in {"done", "changed"}) =>
        LET R      == result.value
            inputs == Ids(args.base) \cup Ids(args.override)
        IN  /\ R.written \cap inputs = {}
            /\ Ids(R.tree) \cap inputs = {}
            /\ acc.touched # "input" =>
                   (acc.base = args.base /\ acc.override = args.override)
            /\ acc.touched # "result" => acc.result = R.tree

\* C14 witness: the merged template took a list from the override, the
\* caller then changed the result in place, and the inputs are as they
\* were.
C14_Witness ==
    /\ op = "deep_update" /\ pc = "changed"
    /\ args.base = cfg_template
    /\ <<"search", "title">> \in DOMAIN args.override
    /\ acc.touched = "result"
    /\ acc.result # result.value.tree
    /\ acc.base = args.base /\ acc.override = args.override

\* The value of a node, whichever object holds it.
SameValue(a, b) == a.kind = b.kind /\ a.items = b.items

\* u sets one leaf path: it is a chain of dicts with one key each that
\* ends in a list or a scalar.
SingleLeaf(u) ==
    /\ \A p, q \in DOMAIN u : Len(p) = Len(q) => p = q
    /\ \E p \in DOMAIN u : p # <<>> /\ u[p].kind # "dict"

\* The path that u sets.
LeafPath(u) == CHOOSE p \in DOMAIN u : \A q \in DOMAIN u : Len(q) <= Len(p)

\* p is q or lies above q.
IsPrefix(p, q) == Len(p) <= Len(q) /\ SubSeq(q, 1, Len(p)) = p

\* Neither path lies on the other.
Apart(p, q) == ~IsPrefix(p, q) /\ ~IsPrefix(q, p)

\* C15: in deep_update(base, override), an override that sets a single leaf
\* path changes only the value at that path: the result holds the
\* override's value there, whole (a list is replaced, not concatenated),
\* and every other key of base, at every nesting level, siblings of the
\* leaf included, keeps its base value; no other key appears.
C15_LeafOverrideChangesOnlyLeaf ==
    (op = "deep_update" /\ pc = "done" /\ SingleLeaf(args.override)) =>
        LET leaf   == LeafPath(args.override)
            merged == result.value.tree
        IN  /\ leaf \in DOMAIN merged
            /\ SameValue(merged[leaf], args.override[leaf])
            /\ \A q \in DOMAIN merged : IsPrefix(leaf, q) => q = leaf
            /\ \A q \in DOMAIN merged :
                   (IsPrefix(q, leaf) /\ q # leaf) => merged[q].kind = "dict"
            /\ \A q \in DOMAIN args.base :
                   Apart(q, leaf) =>
                       (q \in DOMAIN merged /\ SameValue(merged[q], args.base[q]))
            /\ \A q \in DOMAIN merged : Apart(q, leaf) => q \in DOMAIN args.base

\* C15 witness: the template merged with an override of search.title alone
\* keeps search.items and holds the override's two-item list as the title.
C15_Witness ==
    /\ op = "deep_update" /\ pc = "done"
    /\ args.base = cfg_template
    /\ SingleLeaf(args.override)
    /\ LeafPath(args.override) = <<"search", "title">>
    /\ result.value.tree[<<"search", "title">>].items = <<"h1", "h2">>
    /\ result.value.tree[<<"search", "items">>].items = <<".item">>

\* C16: every resolved source_config of a constructed parser contains all
\* key paths of cfg_template, for every caller-supplied override and every
\* class-level static config: an override never removes a template key.
C16_ResolvedHasTemplateKeys ==
    (op = "__init__" /\ pc = "done" /\ ~raised) =>
        \A p \in DOMAIN cfg_template : p \in DOMAIN result.value.tree

(***************************************************************************)
(* Properties of chapter content and search                                *)
(***************************************************************************)

\* The first page of the chapter was fetched and holds a next-section link
\* that does not continue the chapter.
FirstLinkLeavesChapter ==
    /\ op = "get_chapter_content"
    /\ Len(fetched) >= 1
    /\ failed_at # 1
    /\ Truthy(cfg.next_section_selector)
    /\ site[args.chapter_url].next_sec # NoElem
    /\ ~next_section_match(
            build_full_url(site[args.chapter_url].next_sec, args.chapter_url),
            args.chapter_url)

\* C17: in get_chapter_content, if the next-section link on the first page
\* resolves to a URL for which next_section_match(next, current) is false,
\* exactly one page is fetched and the call returns that page's cleaned
\* text (None when the page has no content element to clean).
C17_ForeignLinkStopsAfterOnePage ==
    FirstLinkLeavesChapter =>
        /\ pc = "done"
        /\ fetched = <<args.chapter_url>>
        /\ result = IF site[args.chapter_url].content = NoneVal THEN RetNone
                    ELSE RetStr(site[args.chapter_url].content)

\* C17 witness: the first page of chapter 1 links to chapter 2; the call
\* has returned the text of the first page after one fetch.
C17_Witness ==
    /\ FirstLinkLeavesChapter
    /\ args.chapter_url = S1
    /\ site[S1].next_sec = S2
    /\ fetched = <<S1>>
    /\ result = RetStr(Text(S1))

\* The page the last fetch of the call received.
LastPage == site[fetched[Len(fetched)]]

\* C18: in search_books with limit > 0, once the accumulated number of
\* results reaches or exceeds limit after some page, no further search page
\* is fetched (the call is over); with limit <= 0 the call ends, unless a
\* fetch fails, only when the next-page hook returns none.
C18_LimitStopsSearch ==
    op = "search_books" =>
        /\ (args.limit > 0 /\ Len(acc) >= args.limit) => pc = "done"
        /\ (args.limit <= 0 /\ pc = "done" /\ failed_at = 0 /\ fetched # <<>>) =>
               get_next_search_page(LastPage, get_search_url(args.keyword)) = NoneVal

\* C18 witness: with limit 2 the second page brought the results to the
\* limit; the call is over although that page links to a next page.
C18_Witness ==
    /\ op = "search_books" /\ pc = "done" /\ failed_at = 0
    /\ args.limit = 2
    /\ Len(fetched) = 2
    /\ Len(acc) >= 2
    /\ get_next_search_page(LastPage, get_search_url(args.keyword)) # NoneVal

\* The results of the pages fetched, page after page, each page's in
\* document order.
RECURSIVE ResultsOf(_)
ResultsOf(urls) ==
    IF urls = <<>> THEN <<>>
    ELSE ResultsOf(SubSeq(urls, 1, Len(urls) - 1)) \o site[urls[Len(urls)]].results

\* C19: search_books(keyword, limit) with limit > 0 returns at most limit
\* results, in source order (page order, then document order within a
\* page), whatever the number of items on the last fetched page.
C19_AtMostLimitResults ==
    (op = "search_books" /\ pc = "done" /\ args.limit > 0 /\ failed_at = 0) =>
        /\ Len(result.value) <= args.limit
        /\ \E n \in 0..Len(ResultsOf(fetched)) :
               result.value = SubSeq(ResultsOf(fetched), 1, n)

\* '\n\n'.join(the cleaned texts of the pages at urls)
RECURSIVE JoinFragments(_)
JoinFragments(urls) ==
    IF Len(urls) = 1 THEN site[urls[1]].content
    ELSE JoinFragments(SubSeq(urls, 1, Len(urls) - 1))
             \o <<"\n", "\n">> \o site[urls[Len(urls)]].content

\* C20: for a chapter split over k >= 2 section pages (each with some
\* text), get_chapter_content returns the cleaned text fragments of the
\* pages in fetch order, joined by a double newline between consecutive
\* fragments.
C20_FragmentsJoinedByBlankLine ==
    (/\ op = "get_chapter_content" /\ pc = "done"
     /\ result.kind = "str"
     /\ Len(fetched) >= 2
     /\ \A i \in 1..Len(fetched) : Truthy(site[fetched[i]].content)) =>
        result.value = JoinFragments(fetched)

(***************************************************************************)
(* Properties of chapter-link validity and continuation matching           *)
(***************************************************************************)

\* The chapter marker tokens: volume and chapter words, and the token
\* "Chapter" in either case of its first letter.
MarkerTokens ==
    { <<"U+7B2C">>, <<"U+7AE0">>, <<"U+5377">>,
      <<"C", "h", "a", "p", "t", "e", "r">>,
      <<"c", "h", "a", "p", "t", "e", "r">> }

\* What the validity of an anchor is stated to be.
StatedValid(title, href) ==
    /\ title # NoneVal /\ title # <<>>
    /\ href # NoneVal /\ href # <<>>
    /\ 2 <= Len(title) /\ Len(title) <= 200
    /\ \/ \E k \in MarkerTokens : Contains(title, k)
       \/ \E i \in 1..Len(title) : title[i] \in {"0", "1", "2", "3", "4", "5", "6", "7", "8", "9"}

\* C21: is_valid_chapter_link(title, href) is true exactly when title and
\* href are both non-empty, 2 <= len(title) <= 200, and the title contains a
\* chapter marker token or at least one digit; so a title of length 1 or
\* 201 is invalid, the title U+7B2C 3 U+7AE0 ' ' U+91CD U+9022 is valid with
\* an href, and the navigation title U+9996 U+9875 is invalid even with a
\* well-formed href.
C21_ValidChapterLink ==
    (op = "is_valid_chapter_link" /\ pc = "done") =>
        /\ result.value = StatedValid(args.title, args.href)
        /\ (Len(args.title) = 1 \/ Len(args.title) = 201) => ~result.value
        /\ (args.title = Title_Chapter3 /\ Truthy(args.href)) => result.value
        /\ args.title = Title_Home => ~result.value

\* C21 witness: a title of exactly 200 characters that ends with a chapter
\* marker was judged valid.
C21_Witness ==
    /\ op = "is_valid_chapter_link" /\ pc = "done"
    /\ Len(args.title) = 200
    /\ args.title[200] = "U+7AE0"
    /\ result.value = TRUE

\* url without a trailing ".html", and nothing else removed.
WithoutHtml(url) ==
    IF Len(url) >= 5 /\ SubSeq(url, Len(url) - 4, Len(url)) = <<".", "h", "t", "m", "l">>
    THEN SubSeq(url, 1, Len(url) - 5) ELSE url

\* The continuation rule as stated, on URLs whose ".html" has been removed.
StatedMatch(next_url, current_url) ==
    LET n == parse_sec(WithoutHtml(next_url))
        c == parse_sec(WithoutHtml(current_url))
    IN  \/ n.base = c.base /\ n.idx = c.idx + 1
        \/ n.idx = 2 /\ WithoutHtml(next_url) = WithoutHtml(current_url) \o <<"_", "2">>

\* C22: next_section_match(next_url, current_url), after removing a
\* trailing '.html' (exactly that suffix) from both and parsing each into
\* (base, index), index 1 without a trailing _<digits>, is true if and only
\* if the bases are equal and next index = current index + 1, or next index
\* = 2 and next_url is the current URL directly extended by '_2'.
C22_SectionMatchAsStated ==
    (op = "next_section_match" /\ pc = "done") =>
        result.value = StatedMatch(args.next_sec, args.cur_sec)

\* v is a further part of the chapter at u: without ".html" it is u
\* without ".html" followed by "_k" with k >= 2.
IsPartOf(v, u) ==
    LET stem == WithoutHtml(u)
        part == WithoutHtml(v)
    IN  /\ StartsWith(part, stem \o <<"_">>)
        /\ Len(part) > Len(stem) + 1
        /\ \A j \in (Len(stem) + 2)..Len(part) : IsDigit(part[j])
        /\ ToInt(SubSeq(part, Len(stem) + 2, Len(part))) >= 2

\* C23: every URL that get_chapter_content(u) fetches after the first is a
\* further part of the same chapter (u without '.html' followed by '_k',
\* k >= 2); a next link to a different chapter is never followed, even when
\* u itself ends in _<digits> and the other chapter's URL differs only by
\* that number being one greater.  (A fetch that repeats the page just
\* fetched is left to C1.)
C23_OnlyPartsOfTheChapterFetched ==
    op = "get_chapter_content" =>
        \A i \in 2..Len(fetched) :
            fetched[i] # fetched[i - 1] => IsPartOf(fetched[i], args.chapter_url)

(***************************************************************************)
(* Properties of merging three configurations                              *)
(***************************************************************************)

\* The values of a tree, whichever objects hold them.
Shape(t) == [p \in DOMAIN t |-> [kind |-> t[p].kind, items |-> t[p].items]]

\* B and C set no common key path: a key path that both hold is a dict in
\* both, so neither sets a value where the other sets one or sets below.
NoCommonPath(B, C) ==
    \A p \in DOMAIN B \cap DOMAIN C : B[p].kind = "dict" /\ C[p].kind = "dict"

\* C24: deep_update is associative when the overrides do not share
\* override keys: for all configs A, B, C where B and C set no common key
\* path, deep_update(deep_update(A, B), C) = deep_update(A, deep_update(B, C)).
C24_DeepUpdateAssociative ==
    (op = "merge_three" /\ pc = "done" /\ NoCommonPath(args.override, args.last)) =>
        Shape(result.value.tree) = Shape(acc.result)

\* C24 witness: the template merged with an override of search.title and
\* one of name and url holds both, in either grouping.
C24_Witness ==
    /\ op = "merge_three" /\ pc = "done"
    /\ args.base = cfg_template
    /\ NoCommonPath(args.override, args.last)
    /\ <<"search", "title">> \in DOMAIN args.last
    /\ <<"name">> \in DOMAIN args.override
    /\ <<"name">> \in DOMAIN acc.result
    /\ acc.result[<<"search", "title">>].items = <<"h1", "h2">>
    /\ Shape(result.value.tree) = Shape(acc.result)

(***************************************************************************)
(* Properties of the order of the registry                                 *)
(***************************************************************************)

\* The parser's configured domains hold the host of url.
HasHost(p, url) ==
    \E i \in 1..Len(p.domains) : p.domains[i] = Lower(Netloc(url))

\* C25: in every registry state a parser named 'base', whose can_handle_url
\* is unconditionally true, comes after every other registered parser, so a
\* lookup by URL returns a parser whose domains hold the URL's host whenever
\* one is registered.
C25_BaseParserOrderedLast ==
    /\ \A i, j \in 1..Len(parsers) :
          (i < j /\ parsers[i].name = Name_base) => parsers[j].name = Name_base
    /\ ( /\ ret.call \in {"get_parser_for_url", "ParserLoader.get_parser_for_url"}
         /\ ~ret.raised
         /\ \E i \in 1..Len(parsers) : HasHost(parsers[i], ret.url) )
       => \E i \in 1..Len(parsers) :
             parsers[i].id = ret.value /\ HasHost(parsers[i], ret.url)

\* The loader and the disk as the step leaves them.
After ==
    [parsers |-> parsers', loaded |-> loaded', sources_dir |-> sources_dir',
     sources_json |-> sources_json', class_config |-> class_config',
     next_id |-> next_id', raised |-> FALSE, value |-> 0]

\* The call returns the parser with identity id and adds nothing to the
\* registry or to the persisted list.
FindsAgain(W, id) ==
    /\ ~W.raised
    /\ W.value = id
    /\ W.parsers = parsers'
    /\ W.sources_json = sources_json'

\* C26: once get_parser_for_source(cfg.name, cfg) or
\* get_parser_for_url(cfg.url, cfg) has created and registered a parser from
\* cfg, the same call again, and the other one with cfg.name / cfg.url,
\* return that instance and add nothing to the registry or to the file.
C26_CreatedParserFoundAgain ==
    [][ ( /\ ret'.call \in {"get_parser_for_source", "get_parser_for_url"}
          /\ ~ret'.raised
          /\ sources_json' # sources_json
          /\ ret'.call = "get_parser_for_source" => ret'.name = ret'.config.name )
        => /\ FindsAgain(get_parser_for_source(After, ret'.config.name, ret'.config),
                         ret'.value)
           /\ FindsAgain(get_parser_for_url(After, ret'.config.url, ret'.config),
                         ret'.value)
           /\ ret'.call = "get_parser_for_url"
                 => FindsAgain(get_parser_for_url(After, ret'.url, ret'.config),
                               ret'.value)
      ]_vars

(***************************************************************************)
(* Properties of the incremental update                                    *)
(***************************************************************************)

\* The URLs the next-page hook walks from u on the site s.
RECURSIVE Walked(_, _)
Walked(s, u) ==
    IF ~Truthy(u) \/ u \notin DOMAIN s THEN <<>>
    ELSE <<u>> \o Walked(s, get_next_chapter_list_page(s[u], BookUrl))

\* Every listing page but the last yields count_per_page valid links, and
\* the page_url format addresses the pages the next-page hook walks.
PagedAsConfigured(s) ==
    LET pages == Walked(s, BookUrl)
    IN  /\ Truthy(cfg.chapter_list_page_url_fmt)
        /\ \A k \in 1..Len(pages) :
          /\ k < Len(pages) =>
               Len(parse_chapter_list(s[pages[k]], BookUrl, 0))
                  = cfg.chapter_count_per_page
          /\ chapter_list_page_url(k, BookUrl) \in DOMAIN s
          /\ s[chapter_list_page_url(k, BookUrl)] = s[pages[k]]

\* C27: on a site paged as configured, update_chapter_list(book_url, n)
\* returns what get_chapter_list(book_url) returns with its first n entries
\* dropped, for every n up to the number of chapters; with
\* count_per_page <= 0 this holds on every site.
C27_UpdateIsFullListingDropped ==
    ( /\ op = "update_chapter_list" /\ pc = "done" /\ fetched = <<>>
      /\ args.existing_chapter_count <= Len(acc)
      /\ cfg.chapter_count_per_page > 0 => PagedAsConfigured(site) )
    => result.value = Drop(acc, args.existing_chapter_count)

(***************************************************************************)
(* Properties of a chapter page without content                            *)
(***************************************************************************)

\* C28: if a fetched section page of the chapter has no element matching
\* the configured or a generic content selector, get_chapter_content
\* returns None for the whole chapter, whatever text the other pages gave,
\* and raises no exception.
C28_MissingContentGivesNone ==
    ( /\ op = "get_chapter_content"
      /\ pc = "done"
      /\ \E i \in 1..Len(fetched) :
            /\ i # failed_at
            /\ fetched[i] \in DOMAIN site
            /\ site[fetched[i]].content = NoneVal )
    => (result = RetNone /\ ~raised)

\* C28 witness: the first page gave text, the second page has no content
\* element, and the call returned None.
C28_Witness ==
    /\ op = "get_chapter_content"
    /\ pc = "done"
    /\ Len(fetched) = 2
    /\ failed_at = 0
    /\ acc = Text(fetched[1])
    /\ site[fetched[2]].content = NoneVal
    /\ result = RetNone
    /\ ~raised

(***************************************************************************)
(* Properties relating the registry to the persisted list                  *)
(***************************************************************************)

\* The registered parsers built by create_base_parser from a config.
GenericParsers == SelectSeq(parsers, LAMBDA p : p.cls = "BaseBookSourceParser")

\* C29: whenever the loader is marked loaded, the registry holds as many
\* generic config-backed parsers as the persisted list has entries, and no
\* specialized class is registered more than once.
C29_RegistryMatchesPersistedList ==
    loaded =>
        /\ Len(GenericParsers)
             = (IF sources_json.exists THEN Len(sources_json.list) ELSE 0)
        /\ \A i, j \in 1..Len(parsers) :
              (i # j /\ parsers[i].cls # "BaseBookSourceParser")
                 => parsers[i].cls # parsers[j].cls

(***************************************************************************)
(* Properties of the class-level configuration                             *)
(***************************************************************************)

\* C30: constructing a specialized parser leaves its class-level
\* source_config unchanged (nothing is appended to its lists), so every
\* instance registered, after any number of reloads, holds the template's
\* remove_tags / remove_patterns entries once.
C30_ClassConfigUnchanged ==
    /\ \A c \in ClassNames : class_config[c] = 0
    /\ \A i \in 1..Len(parsers) :
          parsers[i].cls \in ClassNames => parsers[i].template_copies = 1

====
